---- MODULE Spec2Model ----
(***************************************************************************)
(* A model of limesub v3 (SRT / JSON / XML / TTML -> ASS converter).       *)
(*                                                                         *)
(* Go strings are sequences of one-character strings, so that trimming,    *)
(* splitting, regular-expression replacement and joining are computed the  *)
(* way the program computes them.  int64 times are integers (milliseconds).*)
(***************************************************************************)
EXTENDS Integers, Sequences, FiniteSets, TLC

VARIABLES
    \* ConvertSRTBlocksToASS (pipeline.go)
    blocks,      \* the []SRTBlock argument
    tolerance,   \* tolerance*1000: the float64 the gap is compared with, in ms
    pc,          \* position in ConvertSRTBlocksToASS
    lines,       \* result of splitMultiline
    dlgs,        \* the []Dlg slice of ConvertSRTBlocksToASS
    arr,         \* mergeSameOrContinuous: the sorted copy
    i,           \* mergeSameOrContinuous: loop index (1-based)
    merged,      \* mergeSameOrContinuous: the accumulator list
    groups,      \* mergeSameTimeAndStyle: map key -> texts
    order,       \* mergeSameTimeAndStyle: keys in first-occurrence order
    assLines,    \* the Dialogue lines returned
    \* main (main.go)
    args,        \* flag.Args()
    mainPc,      \* position in main
    argIdx,      \* position of the range loop in args (1-based)
    processed,   \* the arguments processOne was called with, in call order
    failed,      \* for every call of processOne, whether it returned an error
    reported,    \* the arguments an error was shown for, in order
    \* parseTimeStringToMs (utils.go)
    tIn,         \* the argument
    tS,          \* the local s
    tPc,         \* position in parseTimeStringToMs
    tResult,     \* the value returned
    \* ConvertAnyToSRT (parsers.go)
    dExt,        \* filepath.Ext(path), as written
    dExists,     \* whether os.ReadFile succeeds
    dData,       \* the content of the file
    dPc,         \* position in ConvertAnyToSRT
    dBlocks,     \* the blocks returned
    dErr,        \* the error returned, "nil" for none
    \* the same cues through the SRT and through the JSON decoder
    cues,        \* the logical cues
    rtPc,        \* position of the SRT run and of the JSON run
    srtBlocks,   \* the blocks of the SRT decoder
    jsonBlocks,  \* the blocks of the JSON decoder
    srtLines,    \* the Dialogue lines of the SRT run
    jsonLines,   \* the Dialogue lines of the JSON run
    \* ResampleASSFileTo1080 (ass_resample.go)
    rExists,     \* whether os.ReadFile succeeds
    rData,       \* the bytes of the input file
    rContent,    \* the local content
    rPc,         \* position in ResampleASSFileTo1080
    rOld,        \* oldX and oldY
    rScale,      \* fx, fy and f
    rErr         \* the error returned, "nil" for none

pipeVars == <<blocks, tolerance, pc, lines, dlgs, arr, i, merged, groups, order, assLines>>

mainVars == <<args, mainPc, argIdx, processed, failed, reported>>

timeVars == <<tIn, tS, tPc, tResult>>

decVars == <<dExt, dExists, dData, dPc, dBlocks, dErr>>

rtVars == <<cues, rtPc, srtBlocks, jsonBlocks, srtLines, jsonLines>>

resVars == <<rExists, rData, rContent, rPc, rOld, rScale, rErr>>

vars == <<pipeVars, mainVars, timeVars, decVars, rtVars, resVars>>

\* what a step of the conversion, of main, of the time parser, of a decoder
\* and of the two decoder runs leaves alone
outsidePipe == <<mainVars, timeVars, decVars, rtVars, resVars>>

outsideMain == <<pipeVars, timeVars, decVars, rtVars, resVars>>

outsideTime == <<pipeVars, mainVars, decVars, rtVars, resVars>>

outsideDecode == <<pipeVars, mainVars, timeVars, rtVars, resVars>>

outsideRoundTrip == <<pipeVars, mainVars, timeVars, decVars, resVars>>

outsideResample == <<pipeVars, mainVars, timeVars, decVars, rtVars>>

\* parseTimeStringToMs is not followed step by step
IdleTime ==
    /\ tIn = <<>>
    /\ tS = <<>>
    /\ tPc = "idle"
    /\ tResult = 0

\* no file is decoded
IdleDecode ==
    /\ dExt = <<>>
    /\ dExists = FALSE
    /\ dData = <<>>
    /\ dPc = "idle"
    /\ dBlocks = <<>>
    /\ dErr = "nil"

\* no pair of decoder runs
IdleRoundTrip ==
    /\ cues = <<>>
    /\ rtPc = [srt |-> "idle", json |-> "idle"]
    /\ srtBlocks = <<>>
    /\ jsonBlocks = <<>>
    /\ srtLines = <<>>
    /\ jsonLines = <<>>

\* no run of the resampler
IdleResample ==
    /\ rExists = FALSE
    /\ rData = <<>>
    /\ rContent = <<>>
    /\ rPc = "idle"
    /\ rOld = [x |-> 0, y |-> 0]
    /\ rScale = <<>>
    /\ rErr = "nil"

-----------------------------------------------------------------------------
(* Characters and the strings package                                      *)

LowerLetters == <<"a","b","c","d","e","f","g","h","i","j","k","l","m",
                  "n","o","p","q","r","s","t","u","v","w","x","y","z">>

UpperLetters == <<"A","B","C","D","E","F","G","H","I","J","K","L","M",
                  "N","O","P","Q","R","S","T","U","V","W","X","Y","Z">>

Digits == <<"0","1","2","3","4","5","6","7","8","9">>

Range(f) == {f[k] : k \in DOMAIN f}

IsLower(c) == c \in Range(LowerLetters)

IsDigit(c) == c \in Range(Digits)

\* unicode.IsSpace / regexp \s restricted to the characters of the model
IsSpace(c) == c \in {" ", "\t", "\n", "\r"}

\* unicode.ToLower on one character
ToLowerChar(c) ==
    IF c \in Range(UpperLetters)
    THEN LowerLetters[CHOOSE k \in 1..26 : UpperLetters[k] = c]
    ELSE c

SetMin(S) == CHOOSE x \in S : \A y \in S : x <= y

SetMax(S) == CHOOSE x \in S : \A y \in S : x >= y

\* strings.TrimSpace
TrimSpace(s) ==
    LET keep == {k \in 1..Len(s) : ~IsSpace(s[k])}
    IN  IF keep = {} THEN <<>> ELSE SubSeq(s, SetMin(keep), SetMax(keep))

\* strings.HasPrefix(s[k:], p), with each character of s lowered when fold
\* is TRUE (the (?i) flag of a pattern whose literal p is lower case)
HasAt(s, k, p, fold) ==
    /\ k >= 1
    /\ k + Len(p) - 1 <= Len(s)
    /\ \A j \in 1..Len(p) :
          (IF fold THEN ToLowerChar(s[k + j - 1]) ELSE s[k + j - 1]) = p[j]

\* strings.Split(s, sep) for a one-character separator
SplitOn(s, sep) ==
    LET n == Len(s)
        cuts == {k \in 1..n : s[k] = sep}
        f[k \in 1..(n + 1)] ==
            LET later == {c \in cuts : c >= k}
            IN  IF later = {} THEN <<SubSeq(s, k, n)>>
                ELSE <<SubSeq(s, k, SetMin(later) - 1)>> \o f[SetMin(later) + 1]
    IN  f[1]

\* strings.Join
RECURSIVE Join(_, _)
Join(parts, sep) ==
    IF Len(parts) = 0 THEN <<>>
    ELSE IF Len(parts) = 1 THEN parts[1]
    ELSE parts[1] \o sep \o Join(Tail(parts), sep)

\* the position of the first character c at or after position k, 0 if none
IndexFrom(s, k, c) ==
    LET hits == {j \in k..Len(s) : s[j] = c}
    IN  IF hits = {} THEN 0 ELSE SetMin(hits)

\* the number of characters from position k on that are in the set cs
RunIn(s, k, cs) ==
    LET stop == {j \in k..Len(s) : s[j] \notin cs}
    IN  IF k > Len(s) \/ s[k] \notin cs THEN 0
        ELSE IF stop = {} THEN Len(s) - k + 1
        ELSE SetMin(stop) - k

\* the number of characters from position k on that are not in the set cs
RunNotIn(s, k, cs) ==
    LET stop == {j \in k..Len(s) : s[j] \in cs}
    IN  IF k > Len(s) \/ s[k] \in cs THEN 0
        ELSE IF stop = {} THEN Len(s) - k + 1
        ELSE SetMin(stop) - k

-----------------------------------------------------------------------------
(* The regular expressions of pipeline.go.  Each operator gives the length *)
(* of the match that starts at position k of s, 0 when the pattern does    *)
(* not match there; no pattern of the program matches the empty string.    *)

\* `\{.*?\}` (line 74): from a brace to the first closing brace, no newline
\* between
MatchTag(s, k) ==
    IF s[k] # "{" THEN 0
    ELSE LET j == IndexFrom(s, k + 1, "}")
         IN  IF j = 0 \/ \E x \in (k + 1)..(j - 1) : s[x] = "\n" THEN 0
             ELSE j - k + 1

\* `\s+` (line 161)
MatchSpaces(s, k) == RunIn(s, k, {" ", "\t", "\n", "\r"})

\* `(?i)\\fn[^\\\}]+` (line 212)
MatchFn(s, k) ==
    IF HasAt(s, k, <<"\\", "f", "n">>, TRUE) /\ RunNotIn(s, k + 3, {"\\", "}"}) > 0
    THEN 3 + RunNotIn(s, k + 3, {"\\", "}"}) ELSE 0

\* `(?i)\\fs\d+` (line 213)
MatchFs(s, k) ==
    IF HasAt(s, k, <<"\\", "f", "s">>, TRUE) /\ RunIn(s, k + 3, Range(Digits)) > 0
    THEN 3 + RunIn(s, k + 3, Range(Digits)) ELSE 0

\* `(?i)\{\\blur[^}]*\}` (line 214)
MatchBlurTag(s, k) ==
    IF HasAt(s, k, <<"{", "\\", "b", "l", "u", "r">>, TRUE) /\ IndexFrom(s, k + 6, "}") > 0
    THEN IndexFrom(s, k + 6, "}") - k + 1 ELSE 0

\* `(?i)\{\\fad\([^}]*\)}` (line 215)
MatchFadTag(s, k) ==
    LET j == IndexFrom(s, k + 6, "}")
    IN  IF HasAt(s, k, <<"{", "\\", "f", "a", "d", "(">>, TRUE) /\ j > k + 6 /\ s[j - 1] = ")"
        THEN j - k + 1 ELSE 0

\* `(?i)\\blur[0-9.]+` (line 217)
MatchBlurInline(s, k) ==
    IF HasAt(s, k, <<"\\", "b", "l", "u", "r">>, TRUE)
       /\ RunIn(s, k + 5, Range(Digits) \cup {"."}) > 0
    THEN 5 + RunIn(s, k + 5, Range(Digits) \cup {"."}) ELSE 0

\* `(?i)\\fad\([^)]*\)` (line 218)
MatchFadInline(s, k) ==
    IF HasAt(s, k, <<"\\", "f", "a", "d", "(">>, TRUE) /\ IndexFrom(s, k + 5, ")") > 0
    THEN IndexFrom(s, k + 5, ")") - k + 1 ELSE 0

\* "{}" (line 226)
MatchEmptyTag(s, k) == IF HasAt(s, k, <<"{", "}">>, FALSE) THEN 2 ELSE 0

MatchLength(re, s, k) ==
    CASE re = "tag" -> MatchTag(s, k)
      [] re = "spaces" -> MatchSpaces(s, k)
      [] re = "fn" -> MatchFn(s, k)
      [] re = "fs" -> MatchFs(s, k)
      [] re = "blurTag" -> MatchBlurTag(s, k)
      [] re = "fadTag" -> MatchFadTag(s, k)
      [] re = "blurInline" -> MatchBlurInline(s, k)
      [] re = "fadInline" -> MatchFadInline(s, k)
      [] re = "emptyTag" -> MatchEmptyTag(s, k)
      \* parsers.go: "\r\n" and "\r" (lines 59-60, 346-347), `\n{2,}` (line 61),
      \* "-->" (lines 72, 92), `(?i)<br\s*/?>` (line 344), `(?s)<[^>]+>` (line 355)
      [] re = "crlf" -> IF HasAt(s, k, <<"\r", "\n">>, FALSE) THEN 2 ELSE 0
      [] re = "cr" -> IF s[k] = "\r" THEN 1 ELSE 0
      [] re = "blankLines" -> IF HasAt(s, k, <<"\n", "\n">>, FALSE) THEN RunIn(s, k, {"\n"}) ELSE 0
      [] re = "arrow" -> IF HasAt(s, k, <<"-", "-", ">">>, FALSE) THEN 3 ELSE 0
      [] re = "br" ->
            LET Close(n) == IF HasAt(s, k + n, <<">">>, FALSE) THEN n + 1 ELSE 0
                Slash(n) == Close(IF HasAt(s, k + n, <<"/">>, FALSE) THEN n + 1 ELSE n)
            IN  IF HasAt(s, k, <<"<", "b", "r">>, TRUE)
                THEN Slash(3 + RunIn(s, k + 3, {" ", "\t", "\n", "\r"})) ELSE 0
      [] re = "anyTag" ->
            LET Close(n) == IF n > 0 /\ k + n < Len(s) THEN n + 2 ELSE 0
            IN  IF s[k] = "<" THEN Close(RunNotIn(s, k + 1, {">"})) ELSE 0

\* regexp.ReplaceAllString / strings.ReplaceAll: the leftmost non-overlapping
\* matches of the pattern re are replaced by repl
ReplaceAllMatches(s, re, repl) ==
    LET Replace(len) ==
            LET f[k \in 1..(Len(s) + 1)] ==
                    LET Skip(later) ==
                            IF later = {} THEN SubSeq(s, k, Len(s))
                            ELSE SubSeq(s, k, SetMin(later) - 1) \o repl
                                 \o f[SetMin(later) + len[SetMin(later)]]
                    IN  Skip({c \in k..Len(s) : len[c] > 0})
            IN  f[1]
    IN  Replace([c \in 1..Len(s) |-> MatchLength(re, s, c)])

\* regexp.Split(s, -1) / strings.Split for a separator that is not empty
SplitMatches(s, re) ==
    LET Split(len) ==
            LET f[k \in 1..(Len(s) + 1)] ==
                    LET Skip(later) ==
                            IF later = {} THEN <<SubSeq(s, k, Len(s))>>
                            ELSE <<SubSeq(s, k, SetMin(later) - 1)>>
                                 \o f[SetMin(later) + len[SetMin(later)]]
                    IN  Skip({c \in k..Len(s) : len[c] > 0})
            IN  f[1]
    IN  Split([c \in 1..Len(s) |-> MatchLength(re, s, c)])

-----------------------------------------------------------------------------
(* pipeline.go                                                             *)

\* splitMultiline, the blocks of one input block
SplitBlock(b) ==
    LET ls == SplitOn(b.Text, "\n")
    IN  [k \in 1..Len(ls) |->
            [Index |-> b.Index, StartMs |-> b.StartMs, EndMs |-> b.EndMs,
             Text |-> TrimSpace(ls[k])]]

RECURSIVE splitMultiline(_)
splitMultiline(bs) ==
    IF bs = <<>> THEN <<>> ELSE SplitBlock(Head(bs)) \o splitMultiline(Tail(bs))

\* `^[^a-z]+$`
NoLowerCase(s) == Len(s) > 0 /\ \A k \in 1..Len(s) : ~IsLower(s[k])

\* `^\s*[\(\[].*[\)\]]\s*$`
BracketWrapped(s) ==
    LET t == TrimSpace(s)
    IN  /\ Len(t) >= 2
        /\ t[1] \in {"(", "["}
        /\ t[Len(t)] \in {")", "]"}
        /\ \A k \in 2..(Len(t) - 1) : t[k] # "\n"

\* detectStyle on the text as it is, its tag spans left in
detectStyle_TagsKept(text) ==
    LET clean == TrimSpace(text)
    IN  IF clean = <<>> THEN "Default"
        ELSE IF NoLowerCase(clean) THEN "tanda"
        ELSE IF BracketWrapped(clean) THEN "tanda"
        ELSE "Default"

detectStyle(text) ==
    LET clean == TrimSpace(ReplaceAllMatches(text, "tag", <<>>))
    IN  IF clean = <<>> THEN "Default"
        ELSE IF NoLowerCase(clean) THEN "tanda"
        ELSE IF BracketWrapped(clean) THEN "tanda"
        ELSE "Default"

normalizeSpaces(s) == TrimSpace(ReplaceAllMatches(s, "spaces", <<" ">>))

\* the Dlg built from one line (ConvertSRTBlocksToASS, step 2)
MakeDlg(b) ==
    [Start |-> b.StartMs, End |-> b.EndMs, Text |-> b.Text, Style |-> detectStyle(b.Text)]

\* InsertStable with the order of the elements left as given (no sort)
InsertStable_Unsorted(sorted, x) == Append(sorted, x)

\* sort.SliceStable by Start: an insertion of x after every element whose
\* Start is not greater
InsertStable(sorted, x) ==
    LET later == {k \in 1..Len(sorted) : x.Start < sorted[k].Start}
        at == IF later = {} THEN Len(sorted) + 1 ELSE SetMin(later)
    IN  SubSeq(sorted, 1, at - 1) \o <<x>> \o SubSeq(sorted, at, Len(sorted))

RECURSIVE SortStableByStart(_)
SortStableByStart(s) ==
    IF s = <<>> THEN <<>>
    ELSE InsertStable(SortStableByStart(SubSeq(s, 1, Len(s) - 1)), s[Len(s)])

Abs(x) == IF x < 0 THEN -x ELSE x

\* the condition of line 126: same style and same whitespace-normalized text
SameCaption(last, cur) ==
    last.Style = cur.Style /\ normalizeSpaces(last.Text) = normalizeSpaces(cur.Text)

\* the condition of line 128
ExactDuplicate(last, cur) == last.Start = cur.Start /\ last.End = cur.End

\* Continuous with the boundary left out (< for <=)
Continuous_Strict(last, cur, tol) == Abs(cur.Start - last.End) < tol

\* the condition of line 133; tol stands for the float64 tolerance*1000
Continuous(last, cur, tol) == Abs(cur.Start - last.End) <= tol

\* MergeStep with the accumulator replaced by the block it is merged with
MergeStep_Replace(acc, cur, tol) ==
    IF acc = <<>> THEN <<cur>>
    ELSE LET last == acc[Len(acc)]
         IN  IF SameCaption(last, cur) /\ ExactDuplicate(last, cur) THEN acc
             ELSE IF SameCaption(last, cur) /\ Continuous(last, cur, tol)
                  THEN [acc EXCEPT ![Len(acc)] = cur]
             ELSE Append(acc, cur)

\* one iteration of the loop of mergeSameOrContinuous (lines 119-139)
MergeStep(acc, cur, tol) ==
    IF acc = <<>> THEN <<cur>>
    ELSE LET last == acc[Len(acc)]
         IN  IF SameCaption(last, cur) /\ ExactDuplicate(last, cur) THEN acc
             ELSE IF SameCaption(last, cur) /\ Continuous(last, cur, tol)
                  THEN [acc EXCEPT ![Len(acc)].End = cur.End]
             ELSE Append(acc, cur)

RECURSIVE MergeLoop(_, _, _)
MergeLoop(acc, rest, tol) ==
    IF rest = <<>> THEN acc ELSE MergeLoop(MergeStep(acc, Head(rest), tol), Tail(rest), tol)

mergeSameOrContinuous(ds, tol) == MergeLoop(<<>>, SortStableByStart(ds), tol)

\* the map key of mergeSameTimeAndStyle
KeyOf(d) == [S |-> d.Start, E |-> d.End, Sty |-> d.Style]

\* GroupStep with the text put in front of the texts of its group
GroupStep_Prepend(g, d) ==
    LET k == [S |-> d.Start, E |-> d.End, Sty |-> d.Style]
    IN  IF k \in DOMAIN g.groups
        THEN [groups |-> [g.groups EXCEPT ![k] = <<d.Text>> \o @], order |-> g.order]
        ELSE [groups |-> (k :> <<d.Text>>) @@ g.groups, order |-> Append(g.order, k)]

\* one iteration of the first loop of mergeSameTimeAndStyle (lines 183-189)
GroupStep(g, d) ==
    LET k == KeyOf(d)
    IN  IF k \in DOMAIN g.groups
        THEN [groups |-> [g.groups EXCEPT ![k] = Append(@, d.Text)], order |-> g.order]
        ELSE [groups |-> (k :> <<d.Text>>) @@ g.groups, order |-> Append(g.order, k)]

RECURSIVE GroupLoop(_, _)
GroupLoop(g, rest) ==
    IF rest = <<>> THEN g ELSE GroupLoop(GroupStep(g, Head(rest)), Tail(rest))

EmptyGroups == [groups |-> [k \in {} |-> <<>>], order |-> <<>>]

\* the line-break marker `\N`
LineBreak == <<"\\", "N">>

\* the second loop of mergeSameTimeAndStyle (lines 196-205)
JoinGroups(g) ==
    [n \in 1..Len(g.order) |->
        [Start |-> g.order[n].S, End |-> g.order[n].E,
         Text |-> Join(g.groups[g.order[n]], LineBreak), Style |-> g.order[n].Sty]]

mergeSameTimeAndStyle(ds) == JoinGroups(GroupLoop(EmptyGroups, ds))

cleanFontAndEffects(s) ==
    LET a == ReplaceAllMatches(s, "fn", <<>>)
        b == ReplaceAllMatches(a, "fs", <<>>)
        c == ReplaceAllMatches(b, "blurTag", <<>>)
        d == ReplaceAllMatches(c, "fadTag", <<>>)
        e == ReplaceAllMatches(d, "blurInline", <<>>)
        f == ReplaceAllMatches(e, "fadInline", <<>>)
    IN  ReplaceAllMatches(f, "emptyTag", <<>>)

\* Go's / and % on int64 truncate toward zero
GoDiv(a, b) == IF a >= 0 THEN a \div b ELSE -((-a) \div b)

GoMod(a, b) == a - b * GoDiv(a, b)

\* formatMsToASSTime with the centiseconds rounded to nearest
formatMsToASSTime_Rounded(ms) ==
    LET totalSec == GoDiv(ms, 1000)
    IN  [h |-> GoDiv(totalSec, 3600),
         m |-> GoDiv(GoMod(totalSec, 3600), 60),
         s |-> GoMod(totalSec, 60),
         centi |-> GoDiv(GoMod(ms, 1000) + 5, 10)]

\* formatMsToASSTime: the four numbers printed as %d:%02d:%02d.%02d
formatMsToASSTime(ms) ==
    LET totalSec == GoDiv(ms, 1000)
    IN  [h |-> GoDiv(totalSec, 3600),
         m |-> GoDiv(GoMod(totalSec, 3600), 60),
         s |-> GoMod(totalSec, 60),
         centi |-> GoDiv(GoMod(ms, 1000), 10)]

\* `{\blur3}{\fad(00,40)}`
DefaultEffect ==
    <<"{", "\\", "b", "l", "u", "r", "3", "}",
      "{", "\\", "f", "a", "d", "(", "0", "0", ",", "4", "0", ")", "}">>

\* EffectText with the prefix given to every style
EffectText_Always(d) == DefaultEffect \o d.Text

\* the text of the Dialogue line of d (lines 41-44)
EffectText(d) == IF d.Style # "tanda" THEN DefaultEffect \o d.Text ELSE d.Text

\* one Dialogue line: the fields of "Dialogue: 0,%s,%s,%s,,0,0,0,,%s"
DialogueLine(d) ==
    [Layer |-> 0, Start |-> formatMsToASSTime(d.Start), End |-> formatMsToASSTime(d.End),
     Style |-> d.Style, Name |-> <<>>, MarginL |-> 0, MarginR |-> 0, MarginV |-> 0,
     Effect |-> <<>>, Text |-> EffectText(d)]

CleanAll(ds) == [n \in 1..Len(ds) |-> [ds[n] EXCEPT !.Text = cleanFontAndEffects(@)]]

ConvertSRTBlocksToASS(bs, tol) ==
    LET ls == splitMultiline(bs)
        d1 == [n \in 1..Len(ls) |-> MakeDlg(ls[n])]
        d2 == mergeSameOrContinuous(d1, tol)
        d3 == mergeSameTimeAndStyle(d2)
        d4 == CleanAll(d3)
    IN  [n \in 1..Len(d4) |-> DialogueLine(d4[n])]

-----------------------------------------------------------------------------
(* The inputs of the conversion                                            *)

MaxBlocks == 3

\* [start, end] intervals in ms, start <= end (the TimedTextBlock invariant):
\* gaps of 0, 50 and 100 ms after [0,1000], an empty interval, and the union
\* [0,2000]
Intervals ==
    {<<0, 1000>>, <<1000, 1000>>, <<1000, 2000>>, <<1050, 2000>>, <<1100, 2000>>, <<0, 2000>>}

Texts == {<<"a">>, <<"b">>}

\* tolerance*1000 for -tolerance 0.02 and the default 0.1
Tolerances == {20, 100}

BlockLists(ivs, txts) ==
    UNION {{[k \in 1..n |-> [Index |-> k, StartMs |-> iv[k][1], EndMs |-> iv[k][2], Text |-> tx[k]]] :
               iv \in [1..n -> ivs], tx \in [1..n -> txts]} : n \in 0..MaxBlocks}

\* no run of main: the conversion is called on its own
IdleMain ==
    /\ args = <<>>
    /\ mainPc = "idle"
    /\ argIdx = 1
    /\ processed = <<>>
    /\ failed = <<>>
    /\ reported = <<>>

InitPipe(ivs, txts, tols) ==
    /\ IdleMain
    /\ IdleTime
    /\ IdleDecode
    /\ IdleRoundTrip
    /\ IdleResample
    /\ blocks \in BlockLists(ivs, txts)
    /\ tolerance \in tols
    /\ pc = "split"
    /\ lines = <<>>
    /\ dlgs = <<>>
    /\ arr = <<>>
    /\ i = 1
    /\ merged = <<>>
    /\ groups = EmptyGroups.groups
    /\ order = <<>>
    /\ assLines = <<>>

Init == InitPipe(Intervals, Texts, Tolerances)

\* Texts with tags, upper case, brackets, several lines and runs of spaces
RichTexts ==
    {<<"a">>,
     <<"B">>,
     <<"(", "a", ")">>,
     <<"{", "\\", "f", "s", "2", "}", "a", " ", " ", "b">>,
     <<"{", "\\", "b", "l", "u", "r", "2", "}", "B">>,
     <<"a", " ", "b", "\n", " ", "B">>}

RichIntervals == {<<0, 1000>>, <<1000, 2000>>}

InitText == InitPipe(RichIntervals, RichTexts, {100})

\* [start, end] intervals around the field boundaries of the ASS time: 10 ms,
\* one second, one minute, one hour, 24 hours, and a large value
ClockIntervals ==
    {<<0, 9>>, <<10, 999>>, <<59999, 60000>>, <<3599999, 3600000>>,
     <<86399999, 86400000>>, <<359999995, 2000000000>>}

InitClock == InitPipe(ClockIntervals, {<<"a">>}, {100})

\* [start, end] intervals, start <= end, where a cue starts up to 50 ms before
\* the end of an earlier one and ends before or after it
OverlapIntervals ==
    {<<0, 1000>>, <<0, 1050>>, <<1000, 1020>>, <<1000, 2000>>, <<1020, 1020>>}

InitOverlap == InitPipe(OverlapIntervals, Texts, {100})

\* cues of one line and of two lines over two adjoining intervals
LineTexts == {<<"a">>, <<"b">>, <<"a", "\n", "b">>}

InitLines == InitPipe({<<0, 1000>>, <<1000, 2000>>}, LineTexts, {100})

\* one cue per run
OneBlock(ivs, txts) ==
    {<<[Index |-> 1, StartMs |-> iv[1], EndMs |-> iv[2], Text |-> tx]>> : iv \in ivs, tx \in txts}

\* Texts for the style classifier: plain, upper case, digits, wrapped in one
\* pair of brackets, in brackets of two kinds, with tag spans, with a brace
\* that is not closed, empty and blank
StyleTexts ==
    {<<>>,
     <<" ">>,
     <<"a">>,
     <<"A">>,
     <<"1", " ", "2">>,
     <<"A", "b">>,
     <<"(", "a", ")">>,
     <<"[", "a", "]">>,
     <<"(", "a", "]">>,
     <<"[", "a", ")">>,
     <<"(", "a">>,
     <<"a", ")">>,
     <<"(", "a", ")", "b">>,
     <<"b", "(", "a", ")">>,
     <<"(", "a", ")", "b", "(", "c", ")">>,
     <<"(", ")">>,
     <<"(">>,
     <<"{", "\\", "i", "1", "}">>,
     <<"{", "\\", "i", "1", "}", "A">>,
     <<"{", "\\", "i", "1", "}", "a">>,
     <<"{", "x", "}", " ", "(", "a", ")", " ", "{", "y", "}">>,
     <<"{", "x", "}", "{", "y", "}", "A">>,
     <<"{", "{", "x", "}", "y", "}">>,
     <<"A", "{", "x">>,
     <<"x", "}", "A">>,
     <<"A", "\n", "(", "b", "]", "\n", "{", "x", "}", "c">>}

\* Texts for the cleaner: each override it removes in a wrapper of its own,
\* \blur and \fad sharing a wrapper with \pos on either side, and overrides
\* it keeps
TagTexts ==
    {<<"{", "\\", "f", "n", "A", "}", "a">>,
     <<"{", "\\", "f", "s", "2", "0", "}", "a">>,
     <<"{", "\\", "b", "l", "u", "r", "2", "}", "a">>,
     <<"{", "\\", "f", "a", "d", "(", "1", ",", "2", ")", "}", "a">>,
     <<"{", "\\", "p", "o", "s", "(", "1", ",", "2", ")", "\\", "b", "l", "u", "r", "2", "}", "a">>,
     <<"{", "\\", "b", "l", "u", "r", "2", "\\", "p", "o", "s", "(", "1", ",", "2", ")", "}", "a">>,
     <<"{", "\\", "p", "o", "s", "(", "1", ",", "2", ")", "\\", "f", "a", "d", "(", "1", ",", "2", ")", "}", "a">>,
     <<"{", "\\", "f", "s", "c", "x", "5", "0", "}", "a">>,
     <<"{", "\\", "p", "o", "s", "(", "1", ",", "2", ")", "}", "A">>}

InitStyle ==
    /\ IdleMain
    /\ IdleTime
    /\ IdleDecode
    /\ IdleRoundTrip
    /\ IdleResample
    /\ blocks \in OneBlock({<<0, 1000>>}, StyleTexts \cup TagTexts)
    /\ tolerance = 100
    /\ pc = "split"
    /\ lines = <<>>
    /\ dlgs = <<>>
    /\ arr = <<>>
    /\ i = 1
    /\ merged = <<>>
    /\ groups = EmptyGroups.groups
    /\ order = <<>>
    /\ assLines = <<>>

-----------------------------------------------------------------------------
(* ConvertSRTBlocksToASS, one action per step                              *)

\* line 16
Split ==
    /\ pc = "split"
    /\ lines' = splitMultiline(blocks)
    /\ pc' = "detect"
    /\ UNCHANGED <<blocks, tolerance, dlgs, arr, i, merged, groups, order, assLines, outsidePipe>>

\* lines 25-29
Detect ==
    /\ pc = "detect"
    /\ dlgs' = [n \in 1..Len(lines) |-> MakeDlg(lines[n])]
    /\ pc' = "sort"
    /\ UNCHANGED <<blocks, tolerance, lines, arr, i, merged, groups, order, assLines, outsidePipe>>

\* mergeSameOrContinuous, lines 112-118
SortByStart ==
    /\ pc = "sort"
    /\ arr' = SortStableByStart(dlgs)
    /\ i' = 1
    /\ merged' = <<>>
    /\ pc' = "merge"
    /\ UNCHANGED <<blocks, tolerance, lines, dlgs, groups, order, assLines, outsidePipe>>

\* mergeSameOrContinuous, one iteration of lines 119-139
Merge ==
    /\ pc = "merge"
    /\ i <= Len(arr)
    /\ merged' = MergeStep(merged, arr[i], tolerance)
    /\ i' = i + 1
    /\ UNCHANGED <<blocks, tolerance, pc, lines, dlgs, arr, groups, order, assLines, outsidePipe>>

\* mergeSameOrContinuous, lines 140-155, and line 31
MergeReturn ==
    /\ pc = "merge"
    /\ i > Len(arr)
    /\ dlgs' = merged
    /\ pc' = "group"
    /\ UNCHANGED <<blocks, tolerance, lines, arr, i, merged, groups, order, assLines, outsidePipe>>

\* mergeSameTimeAndStyle, lines 181-189
Group ==
    /\ pc = "group"
    /\ LET g == GroupLoop(EmptyGroups, dlgs)
       IN  groups' = g.groups /\ order' = g.order
    /\ pc' = "join"
    /\ UNCHANGED <<blocks, tolerance, lines, dlgs, arr, i, merged, assLines, outsidePipe>>

\* mergeSameTimeAndStyle, lines 190-206, and line 33
JoinTexts ==
    /\ pc = "join"
    /\ dlgs' = JoinGroups([groups |-> groups, order |-> order])
    /\ pc' = "clean"
    /\ UNCHANGED <<blocks, tolerance, lines, arr, i, merged, groups, order, assLines, outsidePipe>>

\* lines 35-37
Clean ==
    /\ pc = "clean"
    /\ dlgs' = CleanAll(dlgs)
    /\ pc' = "emit"
    /\ UNCHANGED <<blocks, tolerance, lines, arr, i, merged, groups, order, assLines, outsidePipe>>

\* lines 39-51
Emit ==
    /\ pc = "emit"
    /\ assLines' = [n \in 1..Len(dlgs) |-> DialogueLine(dlgs[n])]
    /\ pc' = "done"
    /\ UNCHANGED <<blocks, tolerance, lines, dlgs, arr, i, merged, groups, order, outsidePipe>>

Next ==
    \/ Split
    \/ Detect
    \/ SortByStart
    \/ Merge
    \/ MergeReturn
    \/ Group
    \/ JoinTexts
    \/ Clean
    \/ Emit

Spec == Init /\ [][Next]_vars

SpecText == InitText /\ [][Next]_vars

SpecClock == InitClock /\ [][Next]_vars

SpecStyle == InitStyle /\ [][Next]_vars

SpecOverlap == InitOverlap /\ [][Next]_vars

SpecLines == InitLines /\ [][Next]_vars

-----------------------------------------------------------------------------
(* main.go: the loop over the files given on the command line              *)

MaxArgs == 3

FileNames == {"a.srt", "b.json", "c.txt"}

\* processOne is not part of the sources at hand: it is taken to return, with
\* nil or with an error, for every file (spec.md, sections 5 and 7)
processOneResults(in) == {"nil", "error"}

\* no conversion is followed step by step during a run of main
IdlePipe ==
    /\ blocks = <<>>
    /\ tolerance = 100
    /\ pc = "idle"
    /\ lines = <<>>
    /\ dlgs = <<>>
    /\ arr = <<>>
    /\ i = 1
    /\ merged = <<>>
    /\ groups = EmptyGroups.groups
    /\ order = <<>>
    /\ assLines = <<>>

InitMain ==
    /\ IdlePipe
    /\ IdleTime
    /\ IdleDecode
    /\ IdleRoundTrip
    /\ IdleResample
    /\ args \in UNION {[1..n -> FileNames] : n \in 0..MaxArgs}
    /\ mainPc = "start"
    /\ argIdx = 1
    /\ processed = <<>>
    /\ failed = <<>>
    /\ reported = <<>>

\* lines 29-38: without arguments a message is shown and the program exits
NoArguments ==
    /\ mainPc = "start"
    /\ Len(args) = 0
    /\ mainPc' = "exit"
    /\ UNCHANGED <<args, argIdx, processed, failed, reported, outsideMain>>

\* line 41: the range loop is entered
EnterLoop ==
    /\ mainPc = "start"
    /\ Len(args) > 0
    /\ mainPc' = "loop"
    /\ argIdx' = 1
    /\ UNCHANGED <<args, processed, failed, reported, outsideMain>>

\* AfterBody with the loop left at the first error
AfterBody_StopOnError(idx, n, err) == IF err THEN n + 1 ELSE idx + 1

\* the position of the loop after the body has run for args[idx]; no path
\* of the body (lines 42-51) leaves the loop
AfterBody(idx, n, err) == idx + 1

\* lines 41-51: one iteration of the loop
ProcessFile ==
    /\ mainPc = "loop"
    /\ argIdx <= Len(args)
    /\ \E r \in processOneResults(args[argIdx]) :
          /\ processed' = Append(processed, args[argIdx])
          /\ failed' = Append(failed, r = "error")
          /\ reported' = IF r = "error" THEN Append(reported, args[argIdx]) ELSE reported
          /\ argIdx' = AfterBody(argIdx, Len(args), r = "error")
    /\ UNCHANGED <<args, mainPc, outsideMain>>

\* lines 52-53: the loop is over and main returns
LeaveLoop ==
    /\ mainPc = "loop"
    /\ argIdx > Len(args)
    /\ mainPc' = "exit"
    /\ UNCHANGED <<args, argIdx, processed, failed, reported, outsideMain>>

NextMain ==
    \/ NoArguments
    \/ EnterLoop
    \/ ProcessFile
    \/ LeaveLoop

\* main is one sequential program: it takes its next step as long as it has one
SpecMain == InitMain /\ [][NextMain]_vars /\ WF_vars(NextMain)

-----------------------------------------------------------------------------
(* float64 arithmetic: strconv.ParseFloat, *, +, >, int64(f)               *)
(*                                                                         *)
(* A non-negative float64 is a record [m, e] that stands for m * 2^e,      *)
(* where m is a numeral: its digits to the base 2^15, least significant    *)
(* first, without leading zeros.  Every operation computes the exact       *)
(* result and rounds it to 53 significant bits, to nearest and ties to     *)
(* even, as IEEE 754 does.  The times of a subtitle file are far from the  *)
(* subnormal and from the overflow range, and carry no sign.               *)

LimbBase == 2 ^ 15

\* the numeral of a natural number
RECURSIVE Limbs(_)
Limbs(n) == IF n = 0 THEN <<>> ELSE <<n % LimbBase>> \o Limbs(n \div LimbBase)

\* the natural number of a numeral
RECURSIVE NatOf(_)
NatOf(a) == IF a = <<>> THEN 0 ELSE a[1] + LimbBase * NatOf(Tail(a))

\* the number of bits of a natural number
BitLength(n) == Cardinality({j \in 0..30 : 2 ^ j <= n})

\* the number of bits of a numeral
BitLen(a) == IF a = <<>> THEN 0 ELSE 15 * (Len(a) - 1) + BitLength(a[Len(a)])

\* bit j of a numeral, bit 1 the least significant
BitAt(a, j) == (a[((j - 1) \div 15) + 1] \div 2 ^ ((j - 1) % 15)) % 2

\* a + b + c for the carry c
RECURSIVE AddLimbs(_, _, _)
AddLimbs(a, b, c) ==
    IF a = <<>> /\ b = <<>> THEN Limbs(c)
    ELSE LET x == IF a = <<>> THEN 0 ELSE a[1]
             y == IF b = <<>> THEN 0 ELSE b[1]
             ta == IF a = <<>> THEN <<>> ELSE Tail(a)
             tb == IF b = <<>> THEN <<>> ELSE Tail(b)
         IN  <<(x + y + c) % LimbBase>> \o AddLimbs(ta, tb, (x + y + c) \div LimbBase)

\* a * k + c for natural numbers k < 2^15 and c
RECURSIVE MulLimbs(_, _, _)
MulLimbs(a, k, c) ==
    IF a = <<>> THEN Limbs(c)
    ELSE <<(a[1] * k + c) % LimbBase>> \o MulLimbs(Tail(a), k, (a[1] * k + c) \div LimbBase)

\* a without leading zeros
StripHigh(a) == SubSeq(a, 1, SetMax({0} \cup {j \in 1..Len(a) : a[j] # 0}))

\* a * 2^k
ShiftLeft(a, k) ==
    IF a = <<>> THEN <<>>
    ELSE [j \in 1..(k \div 15) |-> 0] \o MulLimbs(a, 2 ^ (k % 15), 0)

\* a \div 2^k
ShiftRight(a, k) ==
    LET q == k \div 15
        t == k % 15
        b == IF q >= Len(a) THEN <<>> ELSE SubSeq(a, q + 1, Len(a))
    IN  StripHigh([j \in 1..Len(b) |->
                      (b[j] \div 2 ^ t)
                      + (IF j < Len(b) THEN (b[j + 1] % 2 ^ t) * 2 ^ (15 - t) ELSE 0)])

\* a \div d and a % d for a natural number d < 2^15, from the most
\* significant digit down; r is the remainder carried in
RECURSIVE DivLimbs(_, _, _)
DivLimbs(a, d, r) ==
    IF a = <<>> THEN <<>>
    ELSE DivLimbs(SubSeq(a, 1, Len(a) - 1), d, (r * LimbBase + a[Len(a)]) % d)
         \o <<(r * LimbBase + a[Len(a)]) \div d>>

RECURSIVE ModLimbs(_, _, _)
ModLimbs(a, d, r) ==
    IF a = <<>> THEN r
    ELSE ModLimbs(SubSeq(a, 1, Len(a) - 1), d, (r * LimbBase + a[Len(a)]) % d)

\* the float64 nearest to m * 2^e, or to a value just above it when sticky
\* (then m has more than 53 bits)
RoundFloat64(m, e, sticky) ==
    IF BitLen(m) <= 53 THEN [m |-> m, e |-> e]
    ELSE LET d == BitLen(m) - 53
             kept == ShiftRight(m, d)
             half == BitAt(m, d) = 1
             below == sticky \/ \E j \in 1..(d - 1) : BitAt(m, j) = 1
             up == half /\ (below \/ BitAt(kept, 1) = 1)
         IN  [m |-> IF up THEN AddLimbs(kept, <<>>, 1) ELSE kept, e |-> e + d]

\* the float64 nearest to N / D: the conversion of a decimal numeral with
\* digits N and denominator D, a power of ten below 2^15
DecimalToFloat64(N, D) ==
    LET n == 54 + BitLength(D)
        scaled == ShiftLeft(Limbs(N), n)
    IN  RoundFloat64(StripHigh(DivLimbs(scaled, D, 0)), -n, ModLimbs(scaled, D, 0) # 0)

\* f * k for a constant k that is a natural number below 2^15
MulFloat64(f, k) == RoundFloat64(MulLimbs(f.m, k, 0), f.e, FALSE)

\* f + g
AddFloat64(f, g) ==
    IF f.m = <<>> THEN g
    ELSE IF g.m = <<>> THEN f
    ELSE LET lo == IF f.e < g.e THEN f.e ELSE g.e
         IN  RoundFloat64(AddLimbs(ShiftLeft(f.m, f.e - lo), ShiftLeft(g.m, g.e - lo), 0),
                          lo, FALSE)

\* int64(f): the fraction is dropped
TruncFloat64(f) ==
    IF f.e >= 0 THEN NatOf(ShiftLeft(f.m, f.e)) ELSE NatOf(ShiftRight(f.m, -f.e))

\* f > n for a natural number n
GreaterThan(f, n) ==
    \/ TruncFloat64(f) > n
    \/ /\ TruncFloat64(f) = n
       /\ \E j \in 1..BitLen(f.m) : j <= -f.e /\ BitAt(f.m, j) = 1

\* the value of a string of decimal digits
RECURSIVE DecimalValue(_)
DecimalValue(ds) ==
    IF ds = <<>> THEN 0
    ELSE 10 * DecimalValue(SubSeq(ds, 1, Len(ds) - 1))
         + (CHOOSE d \in 0..9 : Digits[d + 1] = ds[Len(ds)])

\* a string as a decimal numeral: whether it is digits with at most one
\* point (wf), its digits read as a natural number (N) and ten to the
\* number of digits after the point (D)
Numeral(s) ==
    LET dots == {k \in 1..Len(s) : s[k] = "."}
    IN  [wf |-> /\ \A k \in 1..Len(s) : IsDigit(s[k]) \/ s[k] = "."
                /\ Cardinality(dots) <= 1
                /\ Len(s) > Cardinality(dots),
         N  |-> DecimalValue(SelectSeq(s, IsDigit)),
         D  |-> IF dots = {} THEN 1 ELSE 10 ^ (Len(s) - SetMax(dots))]

\* strconv.ParseFloat(s, 64) on the strings at hand: digits with at most one
\* point are a number, every other string is a syntax error with the value 0.
\* (A sign, an exponent, a hexadecimal form, underscores, "inf" and "nan",
\* which ParseFloat also reads, do not occur in the inputs.)
ParseFloat(s) ==
    LET num == Numeral(s)
    IN  IF num.wf THEN [err |-> FALSE, f |-> DecimalToFloat64(num.N, num.D)]
        ELSE [err |-> TRUE, f |-> [m |-> <<>>, e |-> 0]]

-----------------------------------------------------------------------------
(* utils.go: parseTimeStringToMs                                           *)

ToLower(s) == [k \in 1..Len(s) |-> ToLowerChar(s[k])]

HasSuffix(s, suffix) ==
    Len(s) >= Len(suffix) /\ SubSeq(s, Len(s) - Len(suffix) + 1, Len(s)) = suffix

TrimSuffix(s, suffix) ==
    IF HasSuffix(s, suffix) THEN SubSeq(s, 1, Len(s) - Len(suffix)) ELSE s

\* lines 15-17
NormalizeTime(s) == [k \in 1..Len(TrimSpace(s)) |-> IF TrimSpace(s)[k] = "," THEN "." ELSE TrimSpace(s)[k]]

IsMsSuffix(s) == HasSuffix(ToLower(s), <<"m", "s">>)

IsSecondsSuffix(s) == HasSuffix(ToLower(s), <<"s">>)

IsColonForm(s) == \E k \in 1..Len(s) : s[k] = ":"

\* lines 20-22
MsSuffixValue(s) ==
    TruncFloat64(ParseFloat(TrimSpace(TrimSuffix(ToLower(s), <<"m", "s">>))).f)

\* lines 25-27
SecondsSuffixValue(s) ==
    TruncFloat64(MulFloat64(ParseFloat(TrimSpace(TrimSuffix(ToLower(s), <<"s">>))).f, 1000))

\* lines 31-47; hh stays 0 for two parts
ColonValue(s) ==
    LET parts == SplitOn(s, ":")
        zero == [m |-> <<>>, e |-> 0]
        hh == IF Len(parts) = 3 THEN ParseFloat(parts[1]).f ELSE zero
        mm == IF Len(parts) = 3 THEN ParseFloat(parts[2]).f ELSE ParseFloat(parts[1]).f
        ss == IF Len(parts) = 3 THEN ParseFloat(parts[3]).f ELSE ParseFloat(parts[2]).f
        total == AddFloat64(AddFloat64(MulFloat64(hh, 3600), MulFloat64(mm, 60)), ss)
    IN  IF Len(parts) \in {2, 3} THEN TruncFloat64(MulFloat64(total, 1000))
        ELSE TruncFloat64(MulFloat64(ParseFloat(s).f, 1000))

\* lines 50-58
BareValue(s) ==
    LET r == ParseFloat(s)
    IN  IF r.err THEN 0
        ELSE IF GreaterThan(r.f, 1000) THEN TruncFloat64(r.f)
        ELSE TruncFloat64(MulFloat64(r.f, 1000))

parseTimeStringToMs(s) ==
    IF s = <<>> THEN 0
    ELSE LET t == NormalizeTime(s)
         IN  IF IsMsSuffix(t) THEN MsSuffixValue(t)
             ELSE IF IsSecondsSuffix(t) THEN SecondsSuffixValue(t)
             ELSE IF IsColonForm(t) THEN ColonValue(t)
             ELSE BareValue(t)

-----------------------------------------------------------------------------
(* parseTimeStringToMs, one action per rule                                *)

Hours == {<<"0", "0">>, <<"0", "1">>}

Minutes == {<<"0", "0">>, <<"0", "1">>}

Seconds == {<<"0", "0">>, <<"0", "1">>, <<"0", "2">>, <<"3", "0">>}

Fractions ==
    {<<>>, <<",", "0", "0", "0">>, <<",", "0", "0", "1">>, <<",", "0", "1", "0">>,
     <<",", "5", "0", "0">>, <<".", "5">>}

Numbers ==
    {<<"0">>, <<"1">>, <<"1", ".", "5">>, <<"1", ".", "0", "0", "1">>,
     <<"2", ".", "0", "1", "0">>, <<"9", "9", "9">>, <<"1", "0", "0", "0">>,
     <<"1", "0", "0", "0", ".", "5">>, <<"1", "0", "0", "1">>, <<"2", "0", "0", "0">>,
     <<"9", "0", "5", "0", "0">>}

Suffixes == {<<>>, <<"m", "s">>, <<"s">>, <<"M", "S">>, <<" ", "s">>}

OtherStrings ==
    {<<>>, <<" ", " ">>, <<"g", "a", "r", "b", "a", "g", "e">>, <<"x", ":", "y">>,
     <<"1", ":", "2", ":", "3", ":", "4">>, <<" ", "1", ".", "5", "s", " ">>,
     <<".">>, <<"1", ".">>, <<".", "5">>, <<"1", ".", ".", "2">>, <<"1", "2", "a">>,
     <<"s">>, <<"m", "s">>, <<"1", ":">>, <<"1", "\t">>}

TimeStrings ==
    {h \o <<":">> \o m \o <<":">> \o sc \o fr :
        h \in Hours, m \in Minutes, sc \in Seconds, fr \in Fractions}
    \cup {m \o <<":">> \o sc \o fr : m \in Minutes, sc \in Seconds, fr \in Fractions}
    \cup {n \o su : n \in Numbers, su \in Suffixes}
    \cup OtherStrings

InitTime ==
    /\ IdlePipe
    /\ IdleMain
    /\ IdleDecode
    /\ IdleRoundTrip
    /\ IdleResample
    /\ tIn \in TimeStrings
    /\ tS = tIn
    /\ tPc = "start"
    /\ tResult = 0

\* lines 12-14
ReturnEmpty ==
    /\ tPc = "start"
    /\ tIn = <<>>
    /\ tResult' = 0
    /\ tPc' = "done"
    /\ UNCHANGED <<tIn, tS, outsideTime>>

\* lines 15-17
TrimAndReplaceComma ==
    /\ tPc = "start"
    /\ tIn # <<>>
    /\ tS' = NormalizeTime(tS)
    /\ tPc' = "rules"
    /\ UNCHANGED <<tIn, tResult, outsideTime>>

\* lines 19-23
ReturnMsSuffix ==
    /\ tPc = "rules"
    /\ IsMsSuffix(tS)
    /\ tResult' = MsSuffixValue(tS)
    /\ tPc' = "done"
    /\ UNCHANGED <<tIn, tS, outsideTime>>

\* lines 24-28
ReturnSecondsSuffix ==
    /\ tPc = "rules"
    /\ ~IsMsSuffix(tS)
    /\ IsSecondsSuffix(tS)
    /\ tResult' = SecondsSuffixValue(tS)
    /\ tPc' = "done"
    /\ UNCHANGED <<tIn, tS, outsideTime>>

\* lines 30-48
ReturnColonForm ==
    /\ tPc = "rules"
    /\ ~IsSecondsSuffix(tS)
    /\ IsColonForm(tS)
    /\ tResult' = ColonValue(tS)
    /\ tPc' = "done"
    /\ UNCHANGED <<tIn, tS, outsideTime>>

\* lines 50-58
ReturnBareNumber ==
    /\ tPc = "rules"
    /\ ~IsSecondsSuffix(tS)
    /\ ~IsColonForm(tS)
    /\ tResult' = BareValue(tS)
    /\ tPc' = "done"
    /\ UNCHANGED <<tIn, tS, outsideTime>>

NextTime ==
    \/ ReturnEmpty
    \/ TrimAndReplaceComma
    \/ ReturnMsSuffix
    \/ ReturnSecondsSuffix
    \/ ReturnColonForm
    \/ ReturnBareNumber

SpecTime == InitTime /\ [][NextTime]_vars

-----------------------------------------------------------------------------
(* utils.go: formatMsToSRTTime, safeTrimAndNormalizeSpaces                 *)

\* %d for a natural number
RECURSIVE DecimalDigits(_)
DecimalDigits(n) ==
    IF n < 10 THEN <<Digits[n + 1]>>
    ELSE DecimalDigits(n \div 10) \o <<Digits[(n % 10) + 1]>>

\* %0wd for a natural number
ZeroPadded(n, w) == [j \in 1..(w - Len(DecimalDigits(n))) |-> "0"] \o DecimalDigits(n)

formatMsToSRTTime(ms) ==
    ZeroPadded(GoDiv(ms, 3600000), 2) \o <<":">>
    \o ZeroPadded(GoDiv(GoMod(ms, 3600000), 60000), 2) \o <<":">>
    \o ZeroPadded(GoDiv(GoMod(ms, 60000), 1000), 2) \o <<",">>
    \o ZeroPadded(GoMod(ms, 1000), 3)

safeTrimAndNormalizeSpaces(text) ==
    LET TrimEach(ls) == [k \in 1..Len(ls) |-> TrimSpace(ls[k])]
    IN  Join(TrimEach(SplitOn(text, "\n")), <<"\n">>)

-----------------------------------------------------------------------------
(* parsers.go: the SRT decoder                                             *)

\* a decoder's two results
Returned(bs, e) == [blocks |-> bs, err |-> e]

\* sort.Slice by StartMs (lines 176, 275, 338).  A slice of up to six
\* elements is sorted by insertion: an element moves left past the elements
\* that start later, so it ends behind the elements that start earlier and
\* behind those of the same start that came before it.
SortSliceByStartMs(s) ==
    LET place(k) == Cardinality({j \in 1..Len(s) :
                        \/ s[j].StartMs < s[k].StartMs
                        \/ s[j].StartMs = s[k].StartMs /\ j <= k})
    IN  [p \in 1..Len(s) |-> s[CHOOSE k \in 1..Len(s) : place(k) = p]]

Contains(s, re) == \E k \in 1..Len(s) : MatchLength(re, s, k) > 0

\* lines 91-101
parseSRTTimeLine(line) ==
    LET Times(parts) ==
            IF Len(parts) < 2 THEN <<0, 0>>
            ELSE [k \in 1..2 |-> parseTimeStringToMs(TrimSpace(parts[k]))]
    IN  Times(SplitMatches(line, "arrow"))

\* lines 65-86: the block of one part, or no block
SrtPartBlocks(p) ==
    LET Block(times, textLines) ==
            [StartMs |-> times[1], EndMs |-> times[2], Text |-> Join(textLines, <<"\n">>)]
        Found(ls, hits) ==
            IF Len(ls) < 2 \/ hits = {} THEN <<>>
            ELSE <<Block(parseSRTTimeLine(ls[SetMin(hits)]), SubSeq(ls, SetMin(hits) + 1, Len(ls)))>>
        Scan(ls) == Found(ls, {k \in 1..Len(ls) : Contains(ls[k], "arrow")})
    IN  Scan(SplitOn(p, "\n"))

\* lines 63, 78, 83: idx counts the blocks appended
NumberBlocks(bs) ==
    [k \in 1..Len(bs) |->
        [Index |-> k, StartMs |-> bs[k].StartMs, EndMs |-> bs[k].EndMs, Text |-> bs[k].Text]]

parseSRTString(content) ==
    LET unix == ReplaceAllMatches(ReplaceAllMatches(content, "crlf", <<"\n">>), "cr", <<"\n">>)
        parts == SplitMatches(TrimSpace(unix), "blankLines")
    IN  NumberBlocks(Join([k \in 1..Len(parts) |-> SrtPartBlocks(parts[k])], <<>>))

\* lines 48-56
parseSRTFile(exists, data) ==
    IF ~exists THEN Returned(<<>>, "read") ELSE Returned(parseSRTString(data), "nil")

-----------------------------------------------------------------------------
(* parsers.go: the JSON decoder                                            *)
(*                                                                         *)
(* A document is the value encoding/json reads from it: [t |-> "obj", v |-> *)
(* a function from keys to values], [t |-> "arr", v |-> a sequence of      *)
(* values], [t |-> "str", v |-> a string], [t |-> "num", v |-> an integer], *)
(* [t |-> "null", v |-> 0], or [t |-> "invalid", v |-> 0] for a text that  *)
(* is not JSON.                                                            *)

J(t, v) == [t |-> t, v |-> v]

\* json.Unmarshal(data, &target): whether it succeeds for a target that is a
\* map[string]interface{} ("map") or a []interface{} ("slice"); null is read
\* into either and leaves it nil
Unmarshals(doc, target) ==
    \/ doc.t = "null"
    \/ target = "map" /\ doc.t = "obj"
    \/ target = "slice" /\ doc.t = "arr"

\* strconv.ParseInt(s, 10, 64), 0 on a syntax error
ParseInt(s) ==
    LET signed == Len(s) > 0 /\ s[1] \in {"+", "-"}
        ds == IF signed THEN Tail(s) ELSE s
    IN  IF Len(ds) = 0 \/ \E k \in 1..Len(ds) : ~IsDigit(ds[k]) THEN 0
        ELSE IF signed /\ s[1] = "-" THEN -DecimalValue(ds)
        ELSE DecimalValue(ds)

\* lines 180-194; a number is a float64 that holds an integer here
asInt64(x) ==
    IF x.t = "num" THEN x.v
    ELSE IF x.t = "str" THEN ParseInt(TrimSpace(x.v))
    ELSE 0

\* fmt.Sprintf("%v", x) for a string, a natural number below 10^6, nil
FormatValue(x) ==
    IF x.t = "str" THEN x.v
    ELSE IF x.t = "num" THEN DecimalDigits(x.v)
    ELSE <<"<", "n", "i", "l", ">">>

\* lines 159-169
SegText(seg) ==
    IF seg.t # "obj" THEN FormatValue(seg)
    ELSE IF "utf8" \in DOMAIN seg.v THEN FormatValue(seg.v.utf8)
    ELSE IF "text" \in DOMAIN seg.v THEN FormatValue(seg.v.text)
    ELSE <<>>

\* lines 137-174, for an event that is an object
EventBlock(ev, idx) ==
    LET startMs == IF "tStartMs" \in DOMAIN ev THEN asInt64(ev.tStartMs)
                   ELSE IF "start" \in DOMAIN ev THEN asInt64(ev.start)
                   ELSE 0
        given == IF "dDurationMs" \in DOMAIN ev THEN asInt64(ev.dDurationMs)
                 ELSE IF "duration" \in DOMAIN ev THEN asInt64(ev.duration)
                 ELSE 0
        durMs == IF given = 0 THEN 2000 ELSE given
        text == IF "segs" \in DOMAIN ev /\ ev.segs.t = "arr"
                THEN Join([k \in 1..Len(ev.segs.v) |-> SegText(ev.segs.v[k])], <<>>)
                ELSE IF "text" \in DOMAIN ev THEN FormatValue(ev.text)
                ELSE <<>>
    IN  [Index |-> idx, StartMs |-> startMs, EndMs |-> startMs + durMs, Text |-> TrimSpace(text)]

\* lines 130-178
jsonEventsToSRT(events) ==
    LET objects == SelectSeq([k \in 1..Len(events) |-> k], LAMBDA k : events[k].t = "obj")
    IN  SortSliceByStartMs([j \in 1..Len(objects) |-> EventBlock(events[objects[j]].v, objects[j])])

\* lines 104-128
parseJSONToSRT(exists, doc) ==
    IF ~exists THEN Returned(<<>>, "read")
    ELSE IF ~Unmarshals(doc, "map") THEN Returned(<<>>, "unmarshal")
    ELSE IF doc.t = "null" \/ "events" \notin DOMAIN doc.v
         THEN IF Unmarshals(doc, "slice")
              THEN Returned(jsonEventsToSRT(IF doc.t = "arr" THEN doc.v ELSE <<>>), "nil")
              ELSE Returned(<<>>, "no events array found in JSON")
    ELSE IF doc.v.events.t # "arr" THEN Returned(<<>>, "events is not array")
    ELSE Returned(jsonEventsToSRT(doc.v.events.v), "nil")

-----------------------------------------------------------------------------
(* parsers.go: the XML and the TTML decoder                                *)
(*                                                                         *)
(* A file is the sequence of what decoder.Token() meets in it: elements    *)
(* (kind "element"), given by their name as written and by the values      *)
(* DecodeElement reads from them, and a syntax error (kind "error"), at    *)
(* which every later call of Token() fails too.  cdata tells that an       *)
(* element is written as <name>...<sub><![CDATA[text]]></sub></name>       *)
(* without attributes, which is what the patterns of lines 248-253 find in *)
(* the bytes of the file.                                                  *)

\* lines 236-238, 263-265, 273
XmlBlock(times, text) ==
    [StartMs |-> times[1], EndMs |-> IF times[2] = 0 THEN times[1] + 2000 ELSE times[2],
     Text |-> safeTrimAndNormalizeSpaces(text)]

\* lines 197-277
parseXMLToSRT(exists, items) ==
    LET errors == {k \in 1..Len(items) : items[k].kind = "error"}
        tokens == IF errors = {} THEN items ELSE SubSeq(items, 1, SetMin(errors) - 1)
        decoded == SelectSeq(tokens, LAMBDA it :
                       /\ ToLower(it.name) \in {<<"d", "i", "a">>, <<"e", "n", "t", "r", "y">>, <<"p">>}
                       /\ it.sub # <<>>)
        found == SelectSeq(items, LAMBDA it :
                       it.kind = "element" /\ it.name = <<"d", "i", "a">> /\ it.cdata)
        entries == IF Len(decoded) > 0
                   THEN [k \in 1..Len(decoded) |->
                            XmlBlock([j \in 1..2 |-> parseTimeStringToMs(<<decoded[k].st, decoded[k].et>>[j])],
                                     decoded[k].sub)]
                   ELSE [k \in 1..Len(found) |->
                            XmlBlock([j \in 1..2 |-> ParseInt(TrimSpace(<<found[k].st, found[k].et>>[j]))],
                                     found[k].sub)]
    IN  IF ~exists THEN Returned(<<>>, "read")
        ELSE Returned(SortSliceByStartMs(NumberBlocks(entries)), "nil")

\* lines 343-349
normalizeBrTags(s) ==
    ReplaceAllMatches(ReplaceAllMatches(ReplaceAllMatches(s, "br", <<"\n">>), "crlf", <<"\n">>),
                      "cr", <<"\n">>)

\* lines 352-358
stripTagsButPreserveNewlines(s) == ReplaceAllMatches(s, "anyTag", <<>>)

\* lines 319-331
TtmlBlock(p) ==
    LET Block(start, end, dur) ==
            [StartMs |-> start,
             EndMs   |-> IF end # 0 THEN end
                         ELSE IF p.dur # <<>> THEN start + dur
                         ELSE start + 2000,
             Text    |-> safeTrimAndNormalizeSpaces(
                             stripTagsButPreserveNewlines(normalizeBrTags(p.inner)))]
        Timed(ms) == Block(ms[1], ms[2], ms[3])
    IN  Timed([k \in 1..3 |-> parseTimeStringToMs(<<p.begin, p.end, p.dur>>[k])])

\* lines 289-340
parseTTMLToSRT(exists, items) ==
    LET ps == SelectSeq(items, LAMBDA it : ToLower(it.name) = <<"p">>)
    IN  IF ~exists THEN Returned(<<>>, "read")
        ELSE IF \E k \in 1..Len(items) : items[k].kind = "error" THEN Returned(<<>>, "xml")
        ELSE Returned(SortSliceByStartMs(NumberBlocks([k \in 1..Len(ps) |-> TtmlBlock(ps[k])])), "nil")

-----------------------------------------------------------------------------
(* ConvertAnyToSRT, one action per decoder                                 *)

MaxEntries == 2

\* the sequences of up to MaxEntries elements of S
Lists(S) == UNION {[1..n -> S] : n \in 0..MaxEntries}

Arrow == <<" ", "-", "-", ">", " ">>

\* a cue the way an SRT file writes it
SrtCue(idx, start, end, text) ==
    DecimalDigits(idx) \o <<"\n">> \o formatMsToSRTTime(start) \o Arrow
    \o formatMsToSRTTime(end) \o <<"\n">> \o text

\* cues, and parts that are none: one line; two lines without an arrow; an
\* arrow line alone
SrtParts ==
    {SrtCue(1, 0, 1000, <<"A">>),
     SrtCue(2, 1000, 2010, <<"B", "\n", "C">>),
     <<"7", "\n", "1", "s", "-", "-", ">", "2", "s", "\n", "D">>,
     <<"h", "i">>,
     <<"x", "\n", "y">>,
     formatMsToSRTTime(3000) \o Arrow \o formatMsToSRTTime(4000)}

SrtFiles ==
    {Join(ps, sep) : ps \in Lists(SrtParts),
                     sep \in {<<"\n", "\n">>, <<"\r", "\n", "\r", "\n">>}}

\* events: complete; with a string start, a zero duration and a text key;
\* not an object; without duration and with segments of several kinds
JsonEvents ==
    {J("obj", [tStartMs |-> J("num", 0), dDurationMs |-> J("num", 1000),
               segs |-> J("arr", <<J("obj", [utf8 |-> J("str", <<"A">>)])>>)]),
     J("obj", [start |-> J("str", <<"1", "0", "0", "0">>), duration |-> J("num", 0),
               text |-> J("str", <<" ", "B">>)]),
     J("num", 7),
     J("obj", [tStartMs |-> J("num", 500),
               segs |-> J("arr", <<J("str", <<"C">>), J("obj", [text |-> J("num", 5)]),
                                   J("null", 0)>>)])}

JsonFiles ==
    {J("invalid", 0), J("null", 0), J("num", 1), J("str", <<"x">>),
     J("obj", [events |-> J("null", 0)]), J("obj", [events |-> J("str", <<"x">>)])}
    \cup {J("arr", es) : es \in Lists(JsonEvents)}
    \cup {J("obj", [events |-> J("arr", es)]) : es \in Lists(JsonEvents)}
    \cup {J("obj", [body |-> J("arr", es)]) : es \in Lists(JsonEvents)}

XmlItem(kind, name, st, et, sub, cdata) ==
    [kind |-> kind, name |-> name, st |-> st, et |-> et, sub |-> sub, cdata |-> cdata]

XmlItems ==
    {XmlItem("element", <<"d", "i", "a">>, <<"0">>, <<"2", "0", "0", "0">>, <<"A">>, TRUE),
     XmlItem("element", <<"E", "n", "t", "r", "y">>,
             <<"0", "0", ":", "0", "0", ":", "0", "1", ".", "0", "0", "0">>, <<>>,
             <<"B", "\n", " ", "b", " ">>, FALSE),
     XmlItem("element", <<"x">>, <<"1">>, <<"2">>, <<"C">>, FALSE),
     XmlItem("element", <<"d", "i", "a">>, <<" ", "5">>, <<"7">>, <<>>, TRUE),
     XmlItem("error", <<>>, <<>>, <<>>, <<>>, FALSE)}

TtmlItem(kind, name, begin, end, dur, inner) ==
    [kind |-> kind, name |-> name, begin |-> begin, end |-> end, dur |-> dur, inner |-> inner]

TtmlItems ==
    {TtmlItem("element", <<"p">>,
              <<"0", "0", ":", "0", "0", ":", "0", "1", ".", "0", "0", "0">>,
              <<"0", "0", ":", "0", "0", ":", "0", "2", ".", "0", "0", "0">>, <<>>,
              <<"A", "<", "B", "R", " ", "/", ">", "B">>),
     TtmlItem("element", <<"P">>, <<"1", "s">>, <<>>, <<"5", "0", "0", "m", "s">>,
              <<"<", "i", ">", "C", "<", "/", "i", ">">>),
     TtmlItem("element", <<"p">>, <<>>, <<>>, <<>>, <<" ", "D", " ">>),
     TtmlItem("element", <<"d", "i", "v">>, <<>>, <<>>, <<>>, <<>>),
     TtmlItem("error", <<>>, <<>>, <<>>, <<>>, <<>>)}

Extensions ==
    {<<".", "s", "r", "t">>, <<".", "S", "R", "T">>, <<".", "j", "s", "o", "n">>,
     <<".", "x", "m", "l">>, <<".", "t", "t", "m", "l">>, <<".", "t", "x", "t">>}

FilesOf(ext) ==
    CASE ToLower(ext) = <<".", "s", "r", "t">> -> SrtFiles
      [] ToLower(ext) = <<".", "j", "s", "o", "n">> -> JsonFiles
      [] ToLower(ext) = <<".", "x", "m", "l">> -> Lists(XmlItems)
      [] ToLower(ext) = <<".", "t", "t", "m", "l">> -> Lists(TtmlItems)
      [] OTHER -> {<<"h", "i">>}

InitDecode ==
    /\ IdlePipe
    /\ IdleMain
    /\ IdleTime
    /\ IdleRoundTrip
    /\ IdleResample
    /\ dExt \in Extensions
    /\ dExists \in BOOLEAN
    /\ dData \in FilesOf(dExt)
    /\ dPc = "start"
    /\ dBlocks = <<>>
    /\ dErr = "nil"

(* line 27 lowers the extension; line 28 chooses the decoder               *)

\* lines 29-30
DecodeSRT ==
    /\ dPc = "start"
    /\ ToLower(dExt) = <<".", "s", "r", "t">>
    /\ LET r == parseSRTFile(dExists, dData)
       IN  dBlocks' = r.blocks /\ dErr' = r.err
    /\ dPc' = "done"
    /\ UNCHANGED <<dExt, dExists, dData, outsideDecode>>

\* lines 31-32
DecodeJSON ==
    /\ dPc = "start"
    /\ ToLower(dExt) = <<".", "j", "s", "o", "n">>
    /\ LET r == parseJSONToSRT(dExists, dData)
       IN  dBlocks' = r.blocks /\ dErr' = r.err
    /\ dPc' = "done"
    /\ UNCHANGED <<dExt, dExists, dData, outsideDecode>>

\* lines 33-34
DecodeXML ==
    /\ dPc = "start"
    /\ ToLower(dExt) = <<".", "x", "m", "l">>
    /\ LET r == parseXMLToSRT(dExists, dData)
       IN  dBlocks' = r.blocks /\ dErr' = r.err
    /\ dPc' = "done"
    /\ UNCHANGED <<dExt, dExists, dData, outsideDecode>>

\* lines 35-36
DecodeTTML ==
    /\ dPc = "start"
    /\ ToLower(dExt) = <<".", "t", "t", "m", "l">>
    /\ LET r == parseTTMLToSRT(dExists, dData)
       IN  dBlocks' = r.blocks /\ dErr' = r.err
    /\ dPc' = "done"
    /\ UNCHANGED <<dExt, dExists, dData, outsideDecode>>

\* lines 37-38
RejectFormat ==
    /\ dPc = "start"
    /\ ToLower(dExt) \notin {<<".", "s", "r", "t">>, <<".", "j", "s", "o", "n">>,
                             <<".", "x", "m", "l">>, <<".", "t", "t", "m", "l">>}
    /\ LET r == Returned(<<>>, "unsupported input format")
       IN  dBlocks' = r.blocks /\ dErr' = r.err
    /\ dPc' = "done"
    /\ UNCHANGED <<dExt, dExists, dData, outsideDecode>>

NextDecode ==
    \/ DecodeSRT
    \/ DecodeJSON
    \/ DecodeXML
    \/ DecodeTTML
    \/ RejectFormat

SpecDecode == InitDecode /\ [][NextDecode]_vars

-----------------------------------------------------------------------------
(* The same cues through the SRT decoder and through the JSON decoder, and *)
(* each result through ConvertSRTBlocksToASS                               *)

MaxCues == 2

\* the flag default of main.go, line 24 (0.1 s), as tolerance*1000
DefaultTolerance == 100

CueIntervals == {<<0, 1000>>, <<1000, 2000>>, <<0, 2000>>, <<1000, 1000>>, <<2010, 3000>>}

CueTexts == {<<"a">>, <<"b">>}

CueLists ==
    UNION {{[k \in 1..n |-> [start |-> iv[k][1], end |-> iv[k][2], text |-> tx[k]]] :
               iv \in [1..n -> CueIntervals], tx \in [1..n -> CueTexts]} : n \in 0..MaxCues}

\* the cues as an SRT file: numbered, separated by an empty line
RenderSRT(cs) ==
    Join([k \in 1..Len(cs) |-> SrtCue(k, cs[k].start, cs[k].end, cs[k].text)], <<"\n", "\n">>)

\* the cues as a JSON document: an object with an events array, tStartMs the
\* start, dDurationMs the end minus the start, the text in one segment
RenderJSON(cs) ==
    J("obj", [events |-> J("arr",
        [k \in 1..Len(cs) |->
            J("obj", [tStartMs |-> J("num", cs[k].start),
                      dDurationMs |-> J("num", cs[k].end - cs[k].start),
                      segs |-> J("arr", <<J("obj", [utf8 |-> J("str", cs[k].text)])>>)])])])

InitRoundTrip ==
    /\ IdlePipe
    /\ IdleMain
    /\ IdleTime
    /\ IdleDecode
    /\ IdleResample
    /\ cues \in CueLists
    /\ rtPc = [srt |-> "decode", json |-> "decode"]
    /\ srtBlocks = <<>>
    /\ jsonBlocks = <<>>
    /\ srtLines = <<>>
    /\ jsonLines = <<>>

\* parsers.go, lines 53-55
DecodeCuesAsSRT ==
    /\ rtPc.srt = "decode"
    /\ srtBlocks' = parseSRTFile(TRUE, RenderSRT(cues)).blocks
    /\ rtPc' = [rtPc EXCEPT !.srt = "convert"]
    /\ UNCHANGED <<cues, jsonBlocks, srtLines, jsonLines, outsideRoundTrip>>

\* parsers.go, lines 104-128
DecodeCuesAsJSON ==
    /\ rtPc.json = "decode"
    /\ jsonBlocks' = parseJSONToSRT(TRUE, RenderJSON(cues)).blocks
    /\ rtPc' = [rtPc EXCEPT !.json = "convert"]
    /\ UNCHANGED <<cues, srtBlocks, srtLines, jsonLines, outsideRoundTrip>>

\* pipeline.go, lines 14-52, on the blocks of the SRT decoder
ConvertSRTRun ==
    /\ rtPc.srt = "convert"
    /\ srtLines' = ConvertSRTBlocksToASS(srtBlocks, DefaultTolerance)
    /\ rtPc' = [rtPc EXCEPT !.srt = "done"]
    /\ UNCHANGED <<cues, srtBlocks, jsonBlocks, jsonLines, outsideRoundTrip>>

\* pipeline.go, lines 14-52, on the blocks of the JSON decoder
ConvertJSONRun ==
    /\ rtPc.json = "convert"
    /\ jsonLines' = ConvertSRTBlocksToASS(jsonBlocks, DefaultTolerance)
    /\ rtPc' = [rtPc EXCEPT !.json = "done"]
    /\ UNCHANGED <<cues, srtBlocks, jsonBlocks, srtLines, outsideRoundTrip>>

NextRoundTrip ==
    \/ DecodeCuesAsSRT
    \/ DecodeCuesAsJSON
    \/ ConvertSRTRun
    \/ ConvertJSONRun

SpecRoundTrip == InitRoundTrip /\ [][NextRoundTrip]_vars

-----------------------------------------------------------------------------
(* ass_resample.go: float64 products and the verbs %.0f, %.2f and %g       *)

\* a * b for two numerals
RECURSIVE MulNumerals(_, _)
MulNumerals(a, b) ==
    IF b = <<>> THEN <<>>
    ELSE StripHigh(AddLimbs(MulLimbs(a, b[1], 0), <<0>> \o MulNumerals(a, Tail(b)), 0))

\* f * g
MulFloats(f, g) == RoundFloat64(MulNumerals(f.m, g.m), f.e + g.e, FALSE)

\* strconv.ParseFloat(s, 64) with its sign: the magnitude f and whether the
\* value is negative; the value is 0 when err
ParseSignedFloat(s) ==
    LET Build(neg, r) == [err |-> r.err, neg |-> neg /\ ~r.err, f |-> r.f]
        Parse(neg, t) == Build(neg, ParseFloat(t))
        Signed(sign) == Parse(sign /\ s[1] = "-", IF sign THEN Tail(s) ELSE s)
    IN  Signed(Len(s) > 0 /\ s[1] \in {"+", "-"})

\* fmt.Sprintf("%.<prec>f", v) for prec 0 and 2: the exact value of v times
\* 10^prec is rounded to an integer, to nearest and ties to even, and
\* printed with prec digits after the point
FormatFixed(neg, f, prec) ==
    LET Shown(ds) ==
            (IF neg THEN <<"-">> ELSE <<>>)
            \o SubSeq(ds, 1, Len(ds) - prec)
            \o (IF prec > 0 THEN <<".">> \o SubSeq(ds, Len(ds) - prec + 1, Len(ds)) ELSE <<>>)
        Padded(n) == Shown(IF Len(DecimalDigits(n)) > prec THEN DecimalDigits(n)
                           ELSE ZeroPadded(n, prec + 1))
        Up(M, k, q) ==
            /\ k > 0 /\ k <= BitLen(M) /\ BitAt(M, k) = 1
            /\ \/ \E j \in 1..(k - 1) : BitAt(M, j) = 1
               \/ q # <<>> /\ q[1] % 2 = 1
        Round(M, k, q) == Padded(NatOf(q) + (IF Up(M, k, q) THEN 1 ELSE 0))
        Scaled(M, k) == Round(M, k, IF k <= 0 THEN ShiftLeft(M, -k) ELSE ShiftRight(M, k))
    IN  Scaled(MulLimbs(f.m, 10 ^ prec, 0), -f.e)

\* fmt.Sprintf("%g", v): the shortest decimal that reads back as v.  For a
\* value with at most 8 binary digits after the point that decimal is the
\* exact value; the values of the model are of this kind, and the operator
\* has no value elsewhere.
FormatG(neg, f) ==
    LET Sign == IF neg THEN <<"-">> ELSE <<>>
        Fraction(q, r, k) ==
            Sign \o DecimalDigits(q) \o <<".">> \o ZeroPadded(r * 5 ^ k, k)
        Odd(m, e) ==
            CASE e >= 0 /\ e <= 4 /\ NatOf(m) < 2 ^ 15 /\ NatOf(ShiftLeft(m, e)) < 1000000 ->
                    Sign \o DecimalDigits(NatOf(ShiftLeft(m, e)))
              [] e < 0 /\ e >= -8 /\ (NatOf(m) >= 2 ^ (-e) \/ -e <= 3) ->
                    Fraction(NatOf(m) \div 2 ^ (-e), NatOf(m) % 2 ^ (-e), -e)
        Normal(m, e, tz) == Odd(ShiftRight(m, tz), e + tz)
    IN  IF f.m = <<>> THEN Sign \o <<"0">>
        ELSE Normal(f.m, f.e, SetMin({j \in 1..BitLen(f.m) : BitAt(f.m, j) = 1}) - 1)

\* the text t of a number after its value is multiplied by factor and
\* printed with the verb; orElse when t is no number
ScaleNumber(t, factor, verb, orElse) ==
    LET Fmt(p) ==
            IF p.err THEN orElse
            ELSE IF verb = "g" THEN FormatG(p.neg, MulFloats(p.f, factor))
            ELSE FormatFixed(p.neg, MulFloats(p.f, factor), IF verb = ".2f" THEN 2 ELSE 0)
    IN  Fmt(ParseSignedFloat(t))

-----------------------------------------------------------------------------
(* ass_resample.go: the regular expressions                                *)

\* `(?m)^PlayResX\s*:\s*([0-9]+)` and the same for Y (lines 634-635, 648-649)
MatchPlayRes(s, k, axis) ==
    LET Num(p) ==
            IF RunIn(s, p, Range(Digits)) > 0 THEN p + RunIn(s, p, Range(Digits)) - k ELSE 0
        Colon(p) ==
            IF HasAt(s, p, <<":">>, FALSE)
            THEN Num(p + 1 + RunIn(s, p + 1, {" ", "\t", "\n", "\r"})) ELSE 0
    IN  IF (k = 1 \/ s[k - 1] = "\n") /\ HasAt(s, k, <<"P", "l", "a", "y", "R", "e", "s">> \o <<axis>>, FALSE)
        THEN Colon(k + 8 + RunIn(s, k + 8, {" ", "\t", "\n", "\r"})) ELSE 0

\* `(?m)^Style:\s*([^,]+),([^,]+),([0-9.]+),(.*)$` (line 605): three fields
\* that end with a comma, the third of digits and points, and the rest of
\* the line of the third comma
MatchStyleLine(s, k) ==
    LET Eol(c, nl) == (IF nl = 0 THEN Len(s) + 1 ELSE nl) - k
        Third(p, n) ==
            IF n > 0 /\ HasAt(s, p + n, <<",">>, FALSE)
            THEN Eol(p + n, IndexFrom(s, p + n, "\n")) ELSE 0
        Second(p, n) ==
            IF n > 0 /\ HasAt(s, p + n, <<",">>, FALSE)
            THEN Third(p + n + 1, RunIn(s, p + n + 1, Range(Digits) \cup {"."})) ELSE 0
        First(p, n) ==
            IF n > 0 /\ HasAt(s, p + n, <<",">>, FALSE)
            THEN Second(p + n + 1, RunNotIn(s, p + n + 1, {","})) ELSE 0
    IN  IF (k = 1 \/ s[k - 1] = "\n") /\ HasAt(s, k, <<"S", "t", "y", "l", "e", ":">>, FALSE)
        THEN First(k + 6, RunNotIn(s, k + 6, {","})) ELSE 0

\* `(?i)\\pos\(\s*([0-9.+-]+)\s*,\s*([0-9.+-]+)\s*\)` (line 741) and the
\* patterns of \org and \iclip (lines 767, 775): name, n numbers between
\* commas with white space around them, and the closing parenthesis.  With
\* tail, the pattern of \move (line 751): the last number has no white space
\* behind it and `(,.*?)?` may follow it.
MatchArgs(s, k, name, n, tail) ==
    LET IsNum(t) ==
            t # <<>> /\ \A j \in 1..Len(t) : t[j] \in Range(Digits) \cup {".", "+", "-"}
        Ok(parts) ==
            /\ IF tail THEN Len(parts) >= n ELSE Len(parts) = n
            /\ \A j \in 1..n : IsNum(TrimSpace(parts[j]))
            /\ tail => ~IsSpace(parts[n][Len(parts[n])])
            /\ \A j \in (n + 1)..Len(parts) : \A x \in 1..Len(parts[j]) : parts[j][x] # "\n"
        Close(c) ==
            IF c > 0 /\ Ok(SplitOn(SubSeq(s, k + Len(name), c - 1), ",")) THEN c - k + 1 ELSE 0
    IN  IF HasAt(s, k, name, TRUE) THEN Close(IndexFrom(s, k + Len(name), ")")) ELSE 0

\* `(?i)\\fs([0-9.]+)` (line 785) and the patterns of \fsp, \bord, \shad and
\* \blur (lines 791, 797, 803, 809)
MatchScalar(s, k, name) ==
    IF HasAt(s, k, name, TRUE) /\ RunIn(s, k + Len(name), Range(Digits) \cup {"."}) > 0
    THEN Len(name) + RunIn(s, k + Len(name), Range(Digits) \cup {"."}) ELSE 0

\* the tag a pattern of rescaleDialogueTags rewrites, as it is printed
TagName(re) ==
    CASE re = "pos" -> <<"\\", "p", "o", "s", "(">>
      [] re = "move" -> <<"\\", "m", "o", "v", "e", "(">>
      [] re = "org" -> <<"\\", "o", "r", "g", "(">>
      [] re = "iclip" -> <<"\\", "i", "c", "l", "i", "p", "(">>
      [] re = "fs" -> <<"\\", "f", "s">>
      [] re = "fsp" -> <<"\\", "f", "s", "p">>
      [] re = "bord" -> <<"\\", "b", "o", "r", "d">>
      [] re = "shad" -> <<"\\", "s", "h", "a", "d">>
      [] re = "blur" -> <<"\\", "b", "l", "u", "r">>

MatchResample(re, s, k) ==
    CASE re = "playResX" -> MatchPlayRes(s, k, "X")
      [] re = "playResY" -> MatchPlayRes(s, k, "Y")
      \* `(?m)^\[V4\+ Styles\]` (line 662)
      [] re = "stylesHeader" ->
            IF (k = 1 \/ s[k - 1] = "\n") /\ HasAt(s, k, <<"[", "V", "4", "+", " ", "S", "t", "y", "l", "e", "s", "]">>, FALSE) THEN 12 ELSE 0
      \* "[V4+ Styles]" (line 653)
      [] re = "stylesLiteral" -> IF HasAt(s, k, <<"[", "V", "4", "+", " ", "S", "t", "y", "l", "e", "s", "]">>, FALSE) THEN 12 ELSE 0
      [] re = "styleLine" -> MatchStyleLine(s, k)
      \* `(?i)\\fn[^\\\}]+` (line 619)
      [] re = "fnInline" -> MatchFn(s, k)
      [] re \in {"pos", "move", "org", "iclip"} ->
            MatchArgs(s, k, TagName(re), IF re \in {"pos", "org"} THEN 2 ELSE 4, re = "move")
      [] re \in {"fs", "fsp", "bord", "shad", "blur"} -> MatchScalar(s, k, TagName(re))

\* the patterns of rescaleDialogueTags in the order they are applied
TagPatterns == <<"pos", "move", "org", "iclip", "fs", "fsp", "bord", "shad", "blur">>

\* the text a match m of the pattern re is replaced by; sc holds fx, fy, f
Rewrite(re, m, sc) ==
    LET \* lines 606-616: the style name trimmed, the font name replaced, the
        \* font size trimmed, the rest as it is
        Font(parts) ==
            <<"S", "t", "y", "l", "e", ":", " ">> \o TrimSpace(SubSeq(parts[1], 7, Len(parts[1])))
            \o <<",", "B", "a", "s", "i", "c", " ", "C", "o", "m", "i", "c", "a", "l", " ", "N", "C", ",">> \o TrimSpace(parts[3]) \o <<",">>
            \o Join(SubSeq(parts, 4, Len(parts)), <<",">>)
        Factors == IF re \in {"pos", "org", "move", "iclip"}
                   THEN <<sc.fx, sc.fy, sc.fx, sc.fy>> ELSE <<sc.f>>
        Count == IF re \in {"pos", "org"} THEN 2 ELSE IF re \in {"move", "iclip"} THEN 4 ELSE 1
        \* lines 742-749, 752-765, 768-773, 776-783, 786-790 and alike: every
        \* number times its factor, printed with %.2f; an unreadable number is 0
        Scaled(name, parts) ==
            name
            \o Join([j \in 1..Count |->
                        ScaleNumber(TrimSpace(parts[j]), Factors[j], ".2f", <<"0", ".", "0", "0">>)], <<",">>)
            \o (IF Len(parts) > Count
                THEN <<",">> \o Join(SubSeq(parts, Count + 1, Len(parts)), <<",">>) ELSE <<>>)
            \o (IF name[Len(name)] = "(" THEN <<")">> ELSE <<>>)
        Tag(name) ==
            Scaled(name,
                    IF name[Len(name)] = "("
                    THEN SplitOn(SubSeq(m, Len(name) + 1, Len(m) - 1), ",")
                    ELSE <<SubSeq(m, Len(name) + 1, Len(m))>>)
    IN  CASE re = "playResX" -> <<"P", "l", "a", "y", "R", "e", "s", "X", ":", " ", "1", "9", "2", "0">>
          [] re = "playResY" -> <<"P", "l", "a", "y", "R", "e", "s", "Y", ":", " ", "1", "0", "8", "0">>
          [] re = "stylesHeader" ->
                <<";", " ", "R", "e", "s", "a", "m", "p", "l", "e", "d", " ", "t", "o", " ", "1", "9", "2", "0", "x", "1", "0", "8", "0", " ", "a", "n", "d", " ", "n", "o", "r", "m", "a", "l", "i", "z", "e", "d", " ", "b", "y", " ", "L", "i", "m", "e", "s", "u", "b", " ", "v", "3", "\n", "\n", "[", "V", "4", "+", " ", "S", "t", "y", "l", "e", "s", "]">>
          [] re = "stylesLiteral" -> <<"P", "l", "a", "y", "R", "e", "s", "X", ":", " ", "1", "9", "2", "0", "\n", "P", "l", "a", "y", "R", "e", "s", "Y", ":", " ", "1", "0", "8", "0", "\n", "\n", "[", "V", "4", "+", " ", "S", "t", "y", "l", "e", "s", "]">>
          [] re = "styleLine" -> Font(SplitOn(m, ","))
          [] re = "fnInline" -> <<"\\", "f", "n", "B", "a", "s", "i", "c", " ", "C", "o", "m", "i", "c", "a", "l", " ", "N", "C">>
          [] OTHER -> Tag(TagName(re))

\* regexp.ReplaceAllStringFunc / ReplaceAllString, and strings.Replace with
\* n = 1 when limit is 1: the leftmost non-overlapping matches of the
\* pattern re, at most limit of them when limit > 0, are rewritten
ReplaceAllFunc(s, re, sc, limit) ==
    LET Replace(len) ==
            LET f[k \in 1..(Len(s) + 1), n \in 0..1] ==
                    LET Skip(later) ==
                            IF later = {} \/ (limit = 1 /\ n = 1) THEN SubSeq(s, k, Len(s))
                            ELSE SubSeq(s, k, SetMin(later) - 1)
                                 \o Rewrite(re, SubSeq(s, SetMin(later),
                                                       SetMin(later) + len[SetMin(later)] - 1), sc)
                                 \o f[SetMin(later) + len[SetMin(later)], 1]
                    IN  Skip({c \in k..Len(s) : len[c] > 0})
            IN  f[1, 0]
    IN  Replace([c \in 1..Len(s) |-> MatchResample(re, s, c)])

-----------------------------------------------------------------------------
(* ass_resample.go: the functions                                          *)

\* detectPlayRes: the number of the first PlayResX line and of the first
\* PlayResY line, 0 for none
detectPlayRes(content) ==
    LET Value(len, hits) ==
            IF hits = {} THEN 0
            ELSE DecimalValue(SelectSeq(SubSeq(content, SetMin(hits),
                                               SetMin(hits) + len[SetMin(hits)] - 1), IsDigit))
        First(len) == Value(len, {c \in 1..Len(content) : len[c] > 0})
    IN  [axis \in {"x", "y"} |->
            First([c \in 1..Len(content) |->
                      MatchResample(IF axis = "x" THEN "playResX" ELSE "playResY", content, c)])]

\* regexp.MatchString
Matches(s, re) == \E c \in 1..Len(s) : MatchResample(re, s, c) > 0

updateOrInsertPlayRes(content) ==
    LET SetY(c) == IF Matches(c, "playResY") THEN ReplaceAllFunc(c, "playResY", <<>>, 0) ELSE c
    IN  SetY(ReplaceAllFunc(content,
                            IF Matches(content, "playResX") THEN "playResX" ELSE "stylesLiteral",
                            <<>>,
                            IF Matches(content, "playResX") THEN 0 ELSE 1))

insertResampleComment(content) == ReplaceAllFunc(content, "stylesHeader", <<>>, 0)

splitCSVPreserve(s) ==
    LET Trimmed(parts) == [j \in 1..Len(parts) |-> TrimSpace(parts[j])]
    IN  Trimmed(SplitOn(s, ","))

\* rescaleStyleMargins; the lines are those of bufio.Scanner: split at "\n",
\* without a "\r" at their end, and without an empty last line
rescaleStyleMargins(content, sc) ==
    LET Field(parts, j) ==
            CASE j = 3 -> ScaleNumber(parts[j], sc.f, ".0f", parts[j])
              [] j \in {17, 18} -> ScaleNumber(parts[j], sc.f, "g", parts[j])
              [] j \in {20, 21} -> ScaleNumber(parts[j], sc.fx, ".0f", parts[j])
              [] j = 22 -> ScaleNumber(parts[j], sc.fy, ".0f", parts[j])
              [] OTHER -> parts[j]
        Fields(line, parts) ==
            IF Len(parts) >= 22
            THEN <<"S", "t", "y", "l", "e", ":", " ">> \o Join([j \in 1..Len(parts) |-> Field(parts, j)], <<",">>)
            ELSE line
        Style(line) ==
            IF HasAt(line, 1, <<"S", "t", "y", "l", "e", ":">>, FALSE)
            THEN Fields(line, splitCSVPreserve(SubSeq(line, 7, Len(line))))
            ELSE line
        NoCR(line) ==
            IF Len(line) > 0 /\ line[Len(line)] = "\r" THEN SubSeq(line, 1, Len(line) - 1)
            ELSE line
        Scan(ls) ==
            IF ls[Len(ls)] = <<>> THEN SubSeq(ls, 1, Len(ls) - 1) ELSE ls
        Out(ls) == Join([j \in 1..Len(ls) |-> Style(NoCR(ls[j]))], <<"\n">>)
    IN  Out(Scan(SplitOn(content, "\n")))

rescaleDialogueTags(content, sc) ==
    LET f[j \in 0..Len(TagPatterns)] ==
            IF j = 0 THEN content ELSE ReplaceAllFunc(f[j - 1], TagPatterns[j], sc, 0)
    IN  f[Len(TagPatterns)]

-----------------------------------------------------------------------------
(* ResampleASSFileTo1080, one action per step                              *)

\* The header of a document: the lines PlayResX and PlayResY, both, one of
\* them or none, with the values 1280x720, 1920x1080, 960x540, 1280x1080 and
\* 0x0
Headers ==
    {<<>>}
    \cup {<<"P", "l", "a", "y", "R", "e", "s", "X", ":", " ">> \o x \o <<"\n", "P", "l", "a", "y", "R", "e", "s", "Y", ":", " ">> \o y \o <<"\n">> :
            x \in {<<"1", "2", "8", "0">>, <<"1", "9", "2", "0">>}, y \in {<<"7", "2", "0">>, <<"1", "0", "8", "0">>}}
    \cup {<<"P", "l", "a", "y", "R", "e", "s", "X", ":", " ", "9", "6", "0", "\n", "P", "l", "a", "y", "R", "e", "s", "Y", ":", " ", "5", "4", "0", "\n">>,
          <<"P", "l", "a", "y", "R", "e", "s", "X", ":", " ", "0", "\n", "P", "l", "a", "y", "R", "e", "s", "Y", ":", " ", "0", "\n">>,
          <<"P", "l", "a", "y", "R", "e", "s", "X", ":", " ", "1", "9", "2", "0", "\n">>,
          <<"P", "l", "a", "y", "R", "e", "s", "X", ":", " ", "1", "2", "8", "0", "\n">>,
          <<"P", "l", "a", "y", "R", "e", "s", "Y", ":", " ", "1", "0", "8", "0", "\n">>,
          <<"P", "l", "a", "y", "R", "e", "s", "Y", ":", " ", "7", "2", "0", "\n">>}

\* Style lines: Name, Fontname, Fontsize, four colours, Bold, Italic,
\* Underline, StrikeOut, ScaleX, ScaleY, Spacing, Angle, BorderStyle, Outline,
\* Shadow, Alignment, MarginL, MarginR, MarginV, Encoding; and a line of
\* five fields
StyleLines ==
    {<<"S", "t", "y", "l", "e", ":", " ", "D", ",", "A", "r", "i", "a", "l", ",", "2", "0", ",", "c", "1", ",", "c", "2", ",", "c", "3", ",", "c", "4", ",", "0", ",", "0", ",", "0", ",", "0", ",", "1", "0", "0", ",", "1", "0", "0", ",", "2", ",", "0", ",", "1", ",", "2", ",", "1", ",", "2", ",", "1", "0", ",", "1", "0", ",", "1", "0", ",", "1">>,
     <<"S", "t", "y", "l", "e", ":", " ", "D", ",", "A", "r", "i", "a", "l", ",", "2", "5", ",", "c", "1", ",", "c", "2", ",", "c", "3", ",", "c", "4", ",", "-", "1", ",", "0", ",", "0", ",", "0", ",", "9", "0", ",", "8", "0", ",", "0", ",", "3", "0", ",", "3", ",", "1", ".", "5", ",", "0", ",", "8", ",", "3", ",", "5", ",", "7", ",", "0">>,
     <<"S", "t", "y", "l", "e", ":", " ", "S", ",", "A", "r", "i", "a", "l", ",", "2", "0", ",", "c", "1", ",", "c", "2">>}

\* Dialogue lines with override tags
EventLines ==
    {<<"D", "i", "a", "l", "o", "g", "u", "e", ":", " ", "0", ",", "0", ":", "0", "0", ":", "0", "0", ".", "0", "0", ",", "0", ":", "0", "0", ":", "0", "1", ".", "0", "0", ",", "D", ",", ",", "0", ",", "0", ",", "0", ",", ",", "{", "\\", "f", "n", "A", "r", "i", "a", "l", "\\", "f", "s", "2", "0", "}", "x">>,
     <<"D", "i", "a", "l", "o", "g", "u", "e", ":", " ", "0", ",", "0", ":", "0", "0", ":", "0", "0", ".", "0", "0", ",", "0", ":", "0", "0", ":", "0", "1", ".", "0", "0", ",", "D", ",", ",", "0", ",", "0", ",", "0", ",", ",", "{", "\\", "p", "o", "s", "(", "1", "0", ",", " ", "2", "0", ")", "\\", "b", "o", "r", "d", "1", ".", "5", "\\", "m", "o", "v", "e", "(", "1", ",", "2", ",", "3", ",", "4", ",", "0", ",", "9", ")", "}", "x">>}

Documents ==
    {<<"[", "S", "c", "r", "i", "p", "t", " ", "I", "n", "f", "o", "]", "\n">> \o h \o <<"\n", "[", "V", "4", "+", " ", "S", "t", "y", "l", "e", "s", "]", "\n">> \o st \o <<"\n", "\n", "[", "E", "v", "e", "n", "t", "s", "]", "\n">> \o ev \o <<"\n">> :
        h \in Headers, st \in StyleLines, ev \in EventLines}

InitResample ==
    /\ IdlePipe
    /\ IdleMain
    /\ IdleTime
    /\ IdleDecode
    /\ IdleRoundTrip
    /\ rExists \in BOOLEAN
    /\ rData \in (IF rExists THEN Documents ELSE {<<>>})
    /\ rContent = <<>>
    /\ rPc = "read"
    /\ rOld = [x |-> 0, y |-> 0]
    /\ rScale = <<>>
    /\ rErr = "nil"

\* lines 581-584: os.ReadFile fails
ReadFails ==
    /\ rPc = "read"
    /\ ~rExists
    /\ rErr' = "read"
    /\ rPc' = "done"
    /\ UNCHANGED <<rExists, rData, rContent, rOld, rScale, outsideResample>>

\* lines 585-595: the resolution of the document, 1280x720 when a value is
\* 0, and the factors
DetectResolution ==
    /\ rPc = "read"
    /\ rExists
    /\ LET Factors(fx, fy) ==
               [fx |-> fx, fy |-> fy,
                f |-> [m |-> AddFloat64(fx, fy).m, e |-> AddFloat64(fx, fy).e - 1]]
           Old(d) == IF d["x"] = 0 \/ d["y"] = 0 THEN [x |-> 1280, y |-> 720]
                     ELSE [x |-> d["x"], y |-> d["y"]]
           Set(old) ==
               /\ rOld' = old
               /\ rScale' = Factors(DecimalToFloat64(1920, old.x), DecimalToFloat64(1080, old.y))
       IN  Set(Old(detectPlayRes(rData)))
    /\ rContent' = rData
    /\ rPc' = "playres"
    /\ UNCHANGED <<rExists, rData, rErr, outsideResample>>

\* line 598
UpdatePlayRes ==
    /\ rPc = "playres"
    /\ rContent' = updateOrInsertPlayRes(rContent)
    /\ rPc' = "comment"
    /\ UNCHANGED <<rExists, rData, rOld, rScale, rErr, outsideResample>>

\* line 601
InsertComment ==
    /\ rPc = "comment"
    /\ rContent' = insertResampleComment(rContent)
    /\ rPc' = "fonts"
    /\ UNCHANGED <<rExists, rData, rOld, rScale, rErr, outsideResample>>

\* lines 605-620: the font name of the style lines and of the \fn overrides
ReplaceFontNames ==
    /\ rPc = "fonts"
    /\ rContent' = ReplaceAllFunc(ReplaceAllFunc(rContent, "styleLine", <<>>, 0),
                                  "fnInline", <<>>, 0)
    /\ rPc' = "styles"
    /\ UNCHANGED <<rExists, rData, rOld, rScale, rErr, outsideResample>>

\* line 624
RescaleStyles ==
    /\ rPc = "styles"
    /\ rContent' = rescaleStyleMargins(rContent, rScale)
    /\ rPc' = "tags"
    /\ UNCHANGED <<rExists, rData, rOld, rScale, rErr, outsideResample>>

\* lines 627-630: the tags are rescaled and the content is written; the
\* write is taken to succeed, rContent is the file written
RescaleTagsAndWrite ==
    /\ rPc = "tags"
    /\ rContent' = rescaleDialogueTags(rContent, rScale)
    /\ rPc' = "done"
    /\ UNCHANGED <<rExists, rData, rOld, rScale, rErr, outsideResample>>

NextResample ==
    \/ ReadFails
    \/ DetectResolution
    \/ UpdatePlayRes
    \/ InsertComment
    \/ ReplaceFontNames
    \/ RescaleStyles
    \/ RescaleTagsAndWrite

SpecResample == InitResample /\ [][NextResample]_vars

-----------------------------------------------------------------------------
(* Properties of the merge engine and of the emitter                       *)

CountText(texts, t) == Cardinality({n \in 1..Len(texts) : texts[n] = t})

\* C1: when two input blocks have the same start, end, style and text, the
\* output block of that interval and style holds the text at most once.
C1_DuplicatesCollapse ==
    pc = "done" =>
        \A m, n \in 1..Len(lines) :
            LET k == [S |-> lines[m].StartMs, E |-> lines[m].EndMs,
                      Sty |-> detectStyle(lines[m].Text)]
            IN  (/\ m < n
                 /\ lines[m].StartMs = lines[n].StartMs
                 /\ lines[m].EndMs = lines[n].EndMs
                 /\ lines[m].Text = lines[n].Text
                 /\ k \in DOMAIN groups)
                    => CountText(groups[k], lines[m].Text) <= 1

\* C2: in a step of the coalescing pass whose next block has the style and
\* the text of the accumulator and starts g >= 0 ms after its end, the two
\* become the one block [acc.Start, next.End] exactly when g <= tolerance*1000;
\* otherwise the next block is appended.
C2_StepCoalesces(acc, cur) ==
    /\ Len(merged') = Len(merged)
    /\ merged'[Len(merged)].Start = acc.Start
    /\ merged'[Len(merged)].End = cur.End
    /\ SubSeq(merged', 1, Len(merged) - 1) = SubSeq(merged, 1, Len(merged) - 1)

C2_ContinuityWithinTolerance ==
    [][(/\ pc = "merge"
        /\ i <= Len(arr)
        /\ i' = i + 1
        /\ merged # <<>>
        /\ merged[Len(merged)].Style = arr[i].Style
        /\ normalizeSpaces(merged[Len(merged)].Text) = normalizeSpaces(arr[i].Text)
        /\ arr[i].Start - merged[Len(merged)].End >= 0)
       => /\ C2_StepCoalesces(merged[Len(merged)], arr[i])
                <=> (arr[i].Start - merged[Len(merged)].End <= tolerance)
          /\ ~C2_StepCoalesces(merged[Len(merged)], arr[i])
                => merged' = Append(merged, arr[i])]_vars

\* a merge at the boundary g = tolerance*1000 = 100 has happened
C2_Witness ==
    /\ pc = "merge"
    /\ i = 3
    /\ tolerance = 100
    /\ arr[1].Start = 0 /\ arr[1].End = 1000
    /\ arr[2].Start = 1100 /\ arr[2].End = 2000
    /\ arr[1].Text = arr[2].Text
    /\ Len(merged) = 1
    /\ merged[1].Start = 0 /\ merged[1].End = 2000

TextsOf(ds) == [n \in 1..Len(ds) |-> ds[n].Text]

FirstIndex(ds, k) == SetMin({n \in 1..Len(ds) : KeyOf(ds[n]) = k})

\* C3: after mergeSameTimeAndStyle (its input is still in merged) the output
\* keys are pairwise different, the output holds every input key, the text of
\* an output block is the \N-join of the input texts of its key in input
\* order, and the blocks are in order of first occurrence of their keys; the
\* input order is the decode order, because the sorted copy arr keeps the
\* original order of the blocks of equal start.
C3_GroupedByKey ==
    /\ pc \in {"merge", "group", "join", "clean", "emit", "done"} =>
          \A s \in {lines[n].StartMs : n \in 1..Len(lines)} :
              LET AtS(d) == d.Start = s
              IN  SelectSeq(arr, AtS)
                      = SelectSeq([n \in 1..Len(lines) |-> MakeDlg(lines[n])], AtS)
    /\ pc = "clean" =>
          /\ \A m, n \in 1..Len(dlgs) : m # n => KeyOf(dlgs[m]) # KeyOf(dlgs[n])
          /\ {KeyOf(dlgs[n]) : n \in 1..Len(dlgs)} = {KeyOf(merged[n]) : n \in 1..Len(merged)}
          /\ \A n \in 1..Len(dlgs) :
                LET SameKey(d) == KeyOf(d) = KeyOf(dlgs[n])
                IN  dlgs[n].Text = Join(TextsOf(SelectSeq(merged, SameKey)), LineBreak)
          /\ \A m, n \in 1..Len(dlgs) :
                m < n => FirstIndex(merged, KeyOf(dlgs[m])) < FirstIndex(merged, KeyOf(dlgs[n]))

\* two texts were joined, and two blocks of equal start were given in the
\* order b, a
C3_Witness ==
    /\ pc = "clean"
    /\ \E n \in 1..Len(dlgs) : dlgs[n].Text = <<"b">> \o LineBreak \o <<"a">>
    /\ Len(dlgs) >= 2

Centiseconds(t) == ((t.h * 60 + t.m) * 60 + t.s) * 100 + t.centi

\* C4: the accumulator list of the coalescing pass is sorted by start after
\* every step, and the Dialogue lines returned are in non-decreasing order of
\* their start time.
C4_OutputSortedByStart ==
    /\ \A m, n \in 1..Len(merged) : m < n => merged[m].Start <= merged[n].Start
    /\ pc = "done" =>
          \A m, n \in 1..Len(assLines) :
              m < n => Centiseconds(assLines[m].Start) <= Centiseconds(assLines[n].Start)

\* lines were returned for an input that was not in start order
C4_Witness ==
    /\ pc = "done"
    /\ Len(blocks) = 3
    /\ blocks[1].StartMs > blocks[2].StartMs
    /\ blocks[2].StartMs > blocks[3].StartMs
    /\ Len(assLines) = 3

StartsWith(s, p) == Len(s) >= Len(p) /\ SubSeq(s, 1, Len(p)) = p

\* C5: every Dialogue line has style Default or tanda; the text of a line of
\* another style than tanda is the effect prefix followed by the cleaned
\* text, and the text of a tanda line is the cleaned text, without the prefix.
C5_DefaultEffectPrefix ==
    pc = "done" =>
        /\ Len(assLines) = Len(dlgs)
        /\ \A n \in 1..Len(assLines) :
              /\ assLines[n].Style \in {"Default", "tanda"}
              /\ assLines[n].Style # "tanda" =>
                    /\ StartsWith(assLines[n].Text, DefaultEffect)
                    /\ SubSeq(assLines[n].Text, Len(DefaultEffect) + 1, Len(assLines[n].Text))
                          = dlgs[n].Text
              /\ assLines[n].Style = "tanda" =>
                    /\ ~StartsWith(assLines[n].Text, DefaultEffect)
                    /\ assLines[n].Text = dlgs[n].Text

\* a tanda line and a Default line were emitted, the tanda one from a text
\* that carried a blur tag
C5_Witness ==
    /\ pc = "done"
    /\ \E n \in 1..Len(assLines) : assLines[n].Style = "tanda" /\ assLines[n].Text = <<"B">>
    /\ \E n \in 1..Len(assLines) : assLines[n].Style = "Default"
    /\ \E n \in 1..Len(lines) : StartsWith(lines[n].Text, <<"{", "\\", "b", "l", "u", "r">>)

-----------------------------------------------------------------------------
(* Properties of main                                                      *)

\* the arguments among the first n whose call of processOne failed
RECURSIVE FailedArgs(_)
FailedArgs(n) ==
    IF n = 0 THEN <<>>
    ELSE IF failed[n] THEN Append(FailedArgs(n - 1), args[n]) ELSE FailedArgs(n - 1)

\* C6: at every moment the files processed so far are the first arguments,
\* each once and in argument order, an error was shown for exactly those of
\* them whose processing failed, and every run reaches the end of the
\* argument list with all files processed, whatever failed before.
C6_EveryFileProcessed ==
    /\ [](/\ Len(processed) <= Len(args)
          /\ processed = SubSeq(args, 1, Len(processed))
          /\ Len(failed) = Len(processed)
          /\ reported = FailedArgs(Len(processed)))
    /\ <>(mainPc = "exit" /\ processed = args)

\* a run of three files ended after the first and the second file failed
C6_Witness ==
    /\ mainPc = "exit"
    /\ Len(args) = 3
    /\ processed = args
    /\ failed = <<TRUE, TRUE, FALSE>>
    /\ reported = SubSeq(args, 1, 2)

-----------------------------------------------------------------------------
(* Properties of the decoders                                              *)

FourFormats ==
    {<<".", "s", "r", "t">>, <<".", "j", "s", "o", "n">>, <<".", "x", "m", "l">>,
     <<".", "t", "t", "m", "l">>}

\* C7: the JSON decoder accepts both document shapes: for a top-level array
\* of events, and for an object with an events array, it returns the blocks
\* of those events and no error.
C7_JsonAcceptsBothShapes ==
    (dPc = "done" /\ dExists /\ ToLower(dExt) = <<".", "j", "s", "o", "n">>) =>
        /\ dData.t = "arr" => dErr = "nil" /\ dBlocks = jsonEventsToSRT(dData.v)
        /\ (dData.t = "obj" /\ "events" \in DOMAIN dData.v /\ dData.v.events.t = "arr") =>
              dErr = "nil" /\ dBlocks = jsonEventsToSRT(dData.v.events.v)

\* the input matches the schema of its format: an arrow line for SRT, an
\* events key or a top-level array for JSON, a dia, entry or p element for
\* XML, a p element for TTML
Recognized(ext, data) ==
    CASE ext = <<".", "s", "r", "t">> -> Contains(data, "arrow")
      [] ext = <<".", "j", "s", "o", "n">> ->
            data.t = "arr" \/ (data.t = "obj" /\ "events" \in DOMAIN data.v)
      [] ext = <<".", "x", "m", "l">> ->
            \E k \in 1..Len(data) :
                ToLower(data[k].name) \in {<<"d", "i", "a">>, <<"e", "n", "t", "r", "y">>, <<"p">>}
      [] ext = <<".", "t", "t", "m", "l">> ->
            \E k \in 1..Len(data) : ToLower(data[k].name) = <<"p">>

\* the document itself is sound, whatever its entries are: the events are an
\* array, the XML has no syntax error
Sound(ext, data) ==
    CASE ext = <<".", "s", "r", "t">> -> TRUE
      [] ext = <<".", "j", "s", "o", "n">> ->
            data.t = "arr" \/ (data.t = "obj" /\ data.v.events.t = "arr")
      [] OTHER -> \A k \in 1..Len(data) : data[k].kind # "error"

\* C8: each of the four decoders returns an error for an input that matches
\* no recognized schema, and returns blocks without an error for a
\* recognized document, malformed entries or not.
C8_UnrecognizedIsError ==
    (dPc = "done" /\ dExists /\ ToLower(dExt) \in FourFormats) =>
        IF Recognized(ToLower(dExt), dData)
        THEN Sound(ToLower(dExt), dData) => dErr = "nil"
        ELSE dErr # "nil"

\* C9: the cues decoded as SRT and the same cues decoded as JSON give the
\* same Dialogue lines, in the same order, after ConvertSRTBlocksToASS with
\* the same tolerance; cues of zero duration and cues that share a start
\* included.
C9_SameDialogueLines ==
    (rtPc.srt = "done" /\ rtPc.json = "done") => srtLines = jsonLines

-----------------------------------------------------------------------------
(* Properties of the time parser                                           *)

\* the thousandths of a decimal numeral, 0 for a string that is none
MillisOf(s) == IF Numeral(s).wf THEN (Numeral(s).N * 1000) \div Numeral(s).D ELSE 0

\* the milliseconds the rules give in exact arithmetic
RuleMs(s) ==
    LET t == NormalizeTime(s)
        parts == SplitOn(t, ":")
        num == Numeral(t)
        ms == Numeral(TrimSpace(TrimSuffix(ToLower(t), <<"m", "s">>)))
    IN  IF s = <<>> THEN 0
        ELSE IF IsMsSuffix(t) THEN (IF ms.wf THEN ms.N \div ms.D ELSE 0)
        ELSE IF IsSecondsSuffix(t) THEN MillisOf(TrimSpace(TrimSuffix(ToLower(t), <<"s">>)))
        ELSE IF IsColonForm(t) /\ Len(parts) = 3
             THEN MillisOf(parts[1]) * 3600 + MillisOf(parts[2]) * 60 + MillisOf(parts[3])
        ELSE IF IsColonForm(t) /\ Len(parts) = 2
             THEN MillisOf(parts[1]) * 60 + MillisOf(parts[2])
        ELSE IF ~num.wf THEN 0
        ELSE IF num.N > 1000 * num.D THEN num.N \div num.D
        ELSE MillisOf(t)

\* C10: parseTimeStringToMs returns, for every string, the milliseconds its
\* rules give, taken in the order ms suffix, s suffix, colon form, bare
\* number: the number itself for "ms", the number times 1000 for "s",
\* (H*3600 + M*60 + S)*1000 for H:M:S, and 0 for the empty string and for a
\* string that no rule reads.
C10_TimeRules == tPc = "done" => tResult = RuleMs(tIn)

-----------------------------------------------------------------------------
(* Properties of the ASS time format                                       *)

\* the fields t emitted for ms are in range and stand for ms without its
\* last digit
C11_Fields(t, ms) ==
    /\ t.h >= 0
    /\ 0 <= t.m /\ t.m < 60
    /\ 0 <= t.s /\ t.s < 60
    /\ 0 <= t.centi /\ t.centi < 100
    /\ t.centi = (ms \div 10) % 100
    /\ t.h * 3600000 + t.m * 60000 + t.s * 1000 + t.centi * 10 = ms - (ms % 10)

\* the times emitted for the Dlg list ds, each with its millisecond value
C11_Emitted(ds, ls) ==
    {[ms |-> ds[n].Start, t |-> ls[n].Start] : n \in 1..Len(ds)}
        \cup {[ms |-> ds[n].End, t |-> ls[n].End] : n \in 1..Len(ds)}

\* C11: for every millisecond value ms >= 0 that is formatted, the fields
\* emitted are in range (minutes and seconds below 60, centiseconds below 100
\* and equal to (ms div 10) mod 100), the hours are not reduced modulo 24,
\* the fields add up to ms minus (ms mod 10), so the emitted time is never
\* later than ms, and a larger ms never gives an earlier time.
C11_ClockFields ==
    pc = "done" =>
        /\ Len(assLines) = Len(dlgs)
        /\ \A e \in C11_Emitted(dlgs, assLines) : C11_Fields(e.t, e.ms)
        /\ \A e \in C11_Emitted(dlgs, assLines) : Centiseconds(e.t) * 10 <= e.ms
        /\ \A e, g \in C11_Emitted(dlgs, assLines) :
              e.ms <= g.ms => Centiseconds(e.t) <= Centiseconds(g.t)

\* a time of 24 hours and a time one millisecond before it have been
\* emitted, the first with 24 in its hours field
C11_Witness ==
    /\ pc = "done"
    /\ \E n \in 1..Len(assLines) :
          /\ dlgs[n].Start = 86399999
          /\ assLines[n].Start = [h |-> 23, m |-> 59, s |-> 59, centi |-> 99]
          /\ dlgs[n].End = 86400000
          /\ assLines[n].End = [h |-> 24, m |-> 0, s |-> 0, centi |-> 0]

-----------------------------------------------------------------------------
(* Properties of the style classifier                                      *)

\* the text without its {...} tag spans, trimmed
C15_Stripped(t) == TrimSpace(ReplaceAllMatches(t, "tag", <<>>))

\* t opens with a bracket and ends with the closing bracket of the same kind
C15_MatchingPair(t) ==
    /\ Len(t) >= 2
    /\ \/ t[1] = "(" /\ t[Len(t)] = ")"
       \/ t[1] = "[" /\ t[Len(t)] = "]"

\* C15: detectStyle returns tanda exactly when the text without its tag
\* spans, trimmed, is not empty and either has no lowercase ASCII letter or
\* is wrapped in one matching pair of brackets, ( with ) or [ with ]; in
\* every other case, the empty text and a text that opens with one kind of
\* bracket and closes with the other included, it returns Default.
C15_TandaExactly ==
    pc = "sort" =>
        \A n \in 1..Len(lines) :
            dlgs[n].Style =
                IF /\ C15_Stripped(lines[n].Text) # <<>>
                   /\ \/ \A k \in 1..Len(C15_Stripped(lines[n].Text)) :
                             ~IsLower(C15_Stripped(lines[n].Text)[k])
                      \/ C15_MatchingPair(C15_Stripped(lines[n].Text))
                THEN "tanda" ELSE "Default"

\* C16: the classifier gives the same style to a text and to that text with
\* its tag spans removed and trimmed, and the removal of the tag spans
\* leaves no tag span behind.
C16_StripIdempotent ==
    pc = "sort" =>
        \A n \in 1..Len(lines) :
            /\ detectStyle(C15_Stripped(lines[n].Text)) = dlgs[n].Style
            /\ \A k \in 1..Len(C15_Stripped(lines[n].Text)) :
                  MatchLength("tag", C15_Stripped(lines[n].Text), k) = 0

\* a text of upper case behind a tag span with a lowercase letter has been
\* classified as tanda
C16_Witness ==
    /\ pc = "sort"
    /\ \E n \in 1..Len(lines) :
          /\ lines[n].Text = <<"{", "\\", "i", "1", "}", "A">>
          /\ dlgs[n].Style = "tanda"

-----------------------------------------------------------------------------
(* Properties of the merge engine on overlapping cues and on cues of       *)
(* several lines                                                           *)

\* the step about to be taken merges arr[i] into the accumulator: the
\* accumulator list keeps its length and arr[i] is no exact duplicate
C17_Merges ==
    /\ pc = "merge"
    /\ i <= Len(arr)
    /\ merged # <<>>
    /\ SameCaption(merged[Len(merged)], arr[i])
    /\ ~ExactDuplicate(merged[Len(merged)], arr[i])
    /\ Len(merged') = Len(merged)

\* C17: a continuity merge only extends the accumulator: the end of the
\* accumulator after the merge is not before its end before the merge, the
\* merge happens only when the next block starts at or after the end of the
\* accumulator and within the tolerance of it, and the interval after the
\* merge covers the two intervals.
C17_MergeOnlyExtends ==
    [][C17_Merges =>
          /\ merged'[Len(merged)].End >= merged[Len(merged)].End
          /\ arr[i].Start >= merged[Len(merged)].End
          /\ arr[i].Start - merged[Len(merged)].End <= tolerance
          /\ merged'[Len(merged)].Start <= merged[Len(merged)].Start
          /\ merged'[Len(merged)].Start <= arr[i].Start
          /\ merged'[Len(merged)].End >= arr[i].End]_vars

\* the texts of the lines of cue b
C18_LinesOf(b) == {SplitBlock(b)[k].Text : k \in 1..Len(SplitBlock(b))}

\* C18: when two consecutive cues, the second starting at the end of the
\* first or within the tolerance after it, both hold the same line of text,
\* Stage B returns one block with that line that spans both cues, whatever
\* other lines the cues hold.
C18_ContinuityPerLine ==
    pc = "group" =>
        \A p \in 1..(Len(blocks) - 1) :
            (/\ blocks[p + 1].StartMs >= blocks[p].EndMs
             /\ blocks[p + 1].StartMs - blocks[p].EndMs <= tolerance
             /\ blocks[p].StartMs < blocks[p + 1].StartMs)
            => \A t \in C18_LinesOf(blocks[p]) \cap C18_LinesOf(blocks[p + 1]) :
                   \E k \in 1..Len(dlgs) :
                       /\ dlgs[k].Text = t
                       /\ dlgs[k].Start <= blocks[p].StartMs
                       /\ dlgs[k].End >= blocks[p + 1].EndMs

\* the number of places where p stands in s, letters of either case
C19_Count(s, p) == Cardinality({k \in 1..Len(s) : HasAt(s, k, p, TRUE)})

\* the text after holds none of the overrides that cleanFontAndEffects
\* removes and every \pos of the text before
C19_Cleaned(before, after) ==
    /\ C19_Count(after, <<"\\", "f", "n">>) = 0
    /\ \A k \in 1..Len(after) : MatchLength("fs", after, k) = 0
    /\ C19_Count(after, <<"\\", "b", "l", "u", "r">>) = 0
    /\ C19_Count(after, <<"\\", "f", "a", "d">>) = 0
    /\ C19_Count(after, <<"{", "}">>) = 0
    /\ C19_Count(after, <<"\\", "p", "o", "s">>) = C19_Count(before, <<"\\", "p", "o", "s">>)
    /\ C19_Count(after, <<"\\", "f", "s", "c", "x">>) = C19_Count(before, <<"\\", "f", "s", "c", "x">>)

\* C19: the text that cleanFontAndEffects returns has no \fn override, no \fs
\* override with a number, no blur tag, no fade tag and no empty wrapper {},
\* and still has every other override of the text it was given (a \pos that
\* shares a wrapper with \blur, say); so a Dialogue line of another style
\* than tanda has one \blur and one \fad, those of the prefix.
C19_CleanKeepsOtherTags ==
    /\ [][pc = "clean" =>
             \A n \in 1..Len(dlgs) : C19_Cleaned(dlgs[n].Text, dlgs'[n].Text)]_vars
    /\ [](pc = "done" =>
             \A n \in 1..Len(assLines) :
                 assLines[n].Style # "tanda" =>
                     /\ C19_Count(assLines[n].Text, <<"\\", "b", "l", "u", "r">>) = 1
                     /\ C19_Count(assLines[n].Text, <<"\\", "f", "a", "d">>) = 1)

\* C20: the accumulators of Stage B have start <= end at every step; a step
\* of Stage B leaves the start, the style and the text of every accumulator
\* as they are and adds at most one accumulator, the block at hand; Stage B
\* returns at most as many blocks as it was given and Stage C at most as many
\* as Stage B returned.
C20_MergeEngineInvariants ==
    /\ [](\A k \in 1..Len(merged) : merged[k].Start <= merged[k].End)
    /\ [][(pc = "merge" /\ i' = i + 1) =>
             /\ Len(merged') \in {Len(merged), Len(merged) + 1}
             /\ \A k \in 1..Len(merged) :
                   /\ merged'[k].Start = merged[k].Start
                   /\ merged'[k].Style = merged[k].Style
                   /\ merged'[k].Text = merged[k].Text
                   /\ k < Len(merged) => merged'[k] = merged[k]
             /\ Len(merged') = Len(merged) + 1 => merged'[Len(merged')] = arr[i]]_vars
    /\ [](pc \in {"group", "join"} => Len(dlgs) <= Len(lines))
    /\ [](pc \in {"clean", "emit", "done"} =>
             /\ Len(dlgs) <= Len(merged)
             /\ Len(merged) <= Len(lines)
             /\ \A k \in 1..Len(dlgs) : dlgs[k].Start <= dlgs[k].End)

\* Stage B has merged a cue that starts before the end of the accumulator
\* into it, and the conversion has run to its end
C20_Witness ==
    /\ pc = "done"
    /\ Len(lines) = 2
    /\ lines[1].StartMs = 0 /\ lines[1].EndMs = 1050
    /\ lines[2].StartMs = 1000 /\ lines[2].EndMs = 1020
    /\ Len(merged) = 1
    /\ merged[1].Start = 0 /\ merged[1].End = 1020
    /\ Len(dlgs) = 1

-----------------------------------------------------------------------------
(* Properties of the resampler                                             *)

\* the lines of content, and the style lines among them in their order
C12_Lines(content) == SplitOn(content, "\n")

C12_StyleLines(content) ==
    LET IsStyle(l) == StartsWith(l, <<"S", "t", "y", "l", "e", ":">>)
    IN  SelectSeq(C12_Lines(content), IsStyle)

\* the number of lines of content that begin with key
C12_Declared(content, key) ==
    LET Count(ls) == Cardinality({k \in 1..Len(ls) : StartsWith(ls[k], key)})
    IN  Count(C12_Lines(content))

\* the lines of content that begin with key are one line, and that line is
\* key followed by ": " and value
C12_DeclaredOnce(content, key, value) ==
    LET Only(ls) ==
            /\ Cardinality({k \in 1..Len(ls) : StartsWith(ls[k], key)}) = 1
            /\ \E k \in 1..Len(ls) : ls[k] = key \o <<":", " ">> \o value
    IN  Only(C12_Lines(content))

\* C12: after the resampler has run on a document with a [V4+ Styles]
\* section, the written file has a PlayResX line with value 1920 and a
\* PlayResY line with value 1080, each exactly once, whichever of the two
\* lines the input had
C12_TargetResolutionDeclaredOnce ==
    (rPc = "done" /\ rErr = "nil")
        => /\ C12_DeclaredOnce(rContent, <<"P", "l", "a", "y", "R", "e", "s", "X">>, <<"1", "9", "2", "0">>)
           /\ C12_DeclaredOnce(rContent, <<"P", "l", "a", "y", "R", "e", "s", "Y">>, <<"1", "0", "8", "0">>)

\* the fields of a style line, after "Style:"
C13_Fields(line) == splitCSVPreserve(SubSeq(line, 7, Len(line)))

C13_Natural(t) == t # <<>> /\ \A k \in 1..Len(t) : IsDigit(t[k])

\* n is an integer nearest to m * target / old
C13_Nearest(n, m, target, old) ==
    /\ 2 * (n * old - m * target) <= old
    /\ 2 * (m * target - n * old) <= old

\* the text out is the margin m of the text in, rescaled from old to target
C13_Rescaled(out, in, target, old) ==
    C13_Natural(in)
        => /\ C13_Natural(out)
           /\ C13_Nearest(DecimalValue(out), DecimalValue(in), target, old)

\* the PlayRes values detected in a document, 1280 and 720 when absent or
\* zero
C13_Detected(content) ==
    LET Each(d) == [x |-> IF d["x"] = 0 THEN 1280 ELSE d["x"],
                    y |-> IF d["y"] = 0 THEN 720 ELSE d["y"]]
    IN  Each(detectPlayRes(content))

\* C13: for every style line with at least 22 fields, MarginL and MarginR
\* (fields 19 and 20, counted from 0) become round(m * 1920 / oldX) and
\* MarginV (field 21) becomes round(m * 1080 / oldY), where oldX and oldY
\* are the PlayRes values detected in the document, 1280 and 720 when absent
\* or zero; with 1920 and 1080 the margins are unchanged.  round is read as
\* any nearest integer.
C13_MarginScaleLaw ==
    (rPc = "done" /\ rErr = "nil")
        => LET Law(ins, outs, old) ==
                   /\ Len(outs) = Len(ins)
                   /\ \A k \in 1..Len(ins) :
                        Len(C13_Fields(ins[k])) >= 22
                            => /\ Len(C13_Fields(outs[k])) = Len(C13_Fields(ins[k]))
                               /\ C13_Rescaled(C13_Fields(outs[k])[20], C13_Fields(ins[k])[20], 1920, old.x)
                               /\ C13_Rescaled(C13_Fields(outs[k])[21], C13_Fields(ins[k])[21], 1920, old.x)
                               /\ C13_Rescaled(C13_Fields(outs[k])[22], C13_Fields(ins[k])[22], 1080, old.y)
                               /\ (old.x = 1920 /\ old.y = 1080)
                                    => \A j \in 20..22 : C13_Fields(outs[k])[j] = C13_Fields(ins[k])[j]
           IN  Law(C12_StyleLines(rData), C12_StyleLines(rContent), C13_Detected(rData))

\* two float64 values are the same number
C14_SameValue(a, b) == a.m = b.m /\ (a.m = <<>> \/ a.e = b.e)

\* the text out is a number whose value is the value of the text in times f
C14_Multiplied(out, in, f) ==
    ~ParseSignedFloat(in).err
        => /\ ~ParseSignedFloat(out).err
           /\ ParseSignedFloat(out).neg = ParseSignedFloat(in).neg
           /\ C14_SameValue(ParseSignedFloat(out).f, MulFloats(ParseSignedFloat(in).f, f))

\* the text out is the value of the text in times f, printed as an integer
C14_MultipliedToInteger(out, in, f) ==
    ~ParseSignedFloat(in).err
        => out = FormatFixed(ParseSignedFloat(in).neg, MulFloats(ParseSignedFloat(in).f, f), 0)

\* the fields of the style line out against those of the style line in:
\* the font name, the four fields multiplied by f, and the fields that keep
\* their value; the margins (fields 19 to 21) are left to C13
C14_StyleRescaled(out, in, f) ==
    /\ Len(out) = Len(in)
    /\ \A j \in 1..Len(in) :
         CASE j = 2 -> out[j] = <<"B", "a", "s", "i", "c", " ", "C", "o", "m", "i", "c", "a", "l", " ", "N", "C">>
           [] j = 3 -> C14_MultipliedToInteger(out[j], in[j], f)
           [] j \in {14, 17, 18} -> C14_Multiplied(out[j], in[j], f)
           [] j \in {20, 21, 22} -> TRUE
           [] OTHER -> out[j] = in[j]

\* C14: for every style definition line the font name (field 1, counted
\* from 0) becomes the target font, Fontsize (field 2), Spacing (field 13),
\* Outline (field 16) and Shadow (field 17) are multiplied by the combined
\* factor f = (fx + fy) / 2, and no other field changes its value.  The
\* Fontsize may be printed as the nearest integer.
C14_StyleFieldsRescaled ==
    (rPc = "done" /\ rErr = "nil")
        => LET Each(ins, outs) ==
                   /\ Len(outs) = Len(ins)
                   /\ \A k \in 1..Len(ins) :
                        C14_StyleRescaled(C13_Fields(outs[k]), C13_Fields(ins[k]), rScale.f)
           IN  Each(C12_StyleLines(rData), C12_StyleLines(rContent))
====
